---------------------------- MODULE Spec2Model ----------------------------
(***************************************************************************)
(* Catalog resolution and normalisation pipeline of the collection manager *)
(* (SteamGridDB / Jikan / OpenLibrary / Google Books / Discogs adapters    *)
(* and the Notion store service).                                          *)
(*                                                                         *)
(* Every operation is a synchronous call: an action takes the call's       *)
(* inputs and the answers of the remote services it talks to from small    *)
(* sets and leaves the call's requests, return value and raised flag in    *)
(* the state.  Menu models the callers' "while True" menu loop.            *)
(*                                                                         *)
(* Text is a sequence of one-character strings, so that lower(), the       *)
(* "[PL]" tag and similar conversions are computed and not assumed.        *)
(***************************************************************************)
EXTENDS Integers, Sequences, FiniteSets, TLC

VARIABLES
    op,     \* operation that ran last ("menu" when back at the menu loop)
    args,   \* its arguments and the answers of the remote services
    reqs,   \* the requests it sent, in order
    ret,    \* its return value (a tagged record)
    raised, \* TRUE when an exception left the call
    store   \* the pages of the Notion database, oldest first

vars == <<op, args, reqs, ret, raised, store>>

---------------------------------------------------------------------------
(* Bounds of the model                                                     *)

\* longest arbitrary prefix of a provider hit list
MaxMixed == 2
\* longest run of "other, no cover" hits following the prefix
MaxRun == 11
\* longest raw hit list of the adapters that return the provider's list as is
MaxRaw == 2

---------------------------------------------------------------------------
(* Return values                                                           *)

None == [tag |-> "none"]
List(s) == [tag |-> "list", val |-> s]
Rec(r) == [tag |-> "record", val |-> r]
Bool(b) == [tag |-> "bool", val |-> b]
NoArgs == [none |-> TRUE]

---------------------------------------------------------------------------
(* Text helpers: Python str.lower(), "in" on strings                       *)

\* The Polish letters are written as two-character tokens: "l/" is l with
\* stroke, "o'" is o with acute, "z." is z with dot, "a," is a with ogonek.
UpperChars == <<"A","B","C","D","E","F","G","H","I","J","K","L","M",
                "N","O","P","Q","R","S","T","U","V","W","X","Y","Z",
                "A,","C'","E,","L/","N'","O'","S'","Z'","Z.">>
LowerChars == <<"a","b","c","d","e","f","g","h","i","j","k","l","m",
                "n","o","p","q","r","s","t","u","v","w","x","y","z",
                "a,","c'","e,","l/","n'","o'","s'","z'","z.">>

LowerChar(c) ==
    IF \E i \in 1..Len(UpperChars) : UpperChars[i] = c
    THEN LowerChars[CHOOSE i \in 1..Len(UpperChars) : UpperChars[i] = c]
    ELSE c

\* str.lower()
Lower(s) == [i \in 1..Len(s) |-> LowerChar(s[i])]

\* p in s, for strings
Contains(s, p) ==
    \E i \in 0..(Len(s) - Len(p)) : SubSeq(s, i + 1, i + Len(p)) = p

\* any(c in s for c in chars)
AnyCharIn(chars, s) ==
    \E i \in 1..Len(chars) : \E j \in 1..Len(s) : s[j] = chars[i]

\* x in list
InList(x, list) == \E i \in 1..Len(list) : list[i] = x

\* all sequences over S of length 0..n
SeqsUpTo(S, n) == UNION {[1..k -> S] : k \in 0..n}

\* k copies of x
Repeat(x, k) == [i \in 1..k |-> x]

---------------------------------------------------------------------------
(* OpenLibraryService.search_book                                          *)

PolishChars == <<"a,","c'","e,","l/","n'","o'","s'","z'","z.",
                 "A,","C'","E,","L/","N'","O'","S'","Z'","Z.">>

polish_publishers == <<
    <<"Z","n","a","k">>,
    <<"A","l","b","a","t","r","o","s">>,
    <<"R","e","b","i","s">>,
    <<"M","u","z","a">>,
    <<"C","z","a","r","n","a"," ","O","w","c","a">>,
    <<"W",".","A",".","B",".">>,
    <<"W","y","d","a","w","n","i","c","t","w","o"," ","L","i","t","e","r","a","c","k","i","e">>,
    <<"P","r","o'","s","z","y","n'","s","k","i">>,
    <<"M","e","d","i","a"," ","R","o","d","z","i","n","a">>,
    <<"A","m","b","e","r">>,
    <<"Z","y","s","k">>,
    <<"M","a","g">>,
    <<"I","n","s","i","g","n","i","s">>,
    <<"F","a","b","r","y","k","a"," ","S","l/","o'","w">>,
    <<"S","o","n","i","a"," ","D","r","a","g","a">> >>

PLTag == <<"[","P","L","]">>
PLSuffix == <<" ","[","P","L","]">>
UnknownTitle == <<"U","n","k","n","o","w","n"," ","T","i","t","l","e">>

\* cap on the last bucket ("other_books_without_covers[:10]")
OtherNoCoverCap == 10

\* The docs a provider answer is built from.  has* say whether the JSON key
\* is present; probes are the answers of the HEAD requests sent for this
\* doc's cover URLs, in the order they are sent.
DocTemplates == [
    PL_LANG_COVER |->
        [hasLanguage |-> TRUE, language |-> <<"eng", "pol">>,
         hasTitle |-> TRUE, title |-> <<"D","i","u","n","a">>,
         hasPublisher |-> FALSE, publisher |-> <<>>,
         hasCover |-> TRUE, isbn |-> <<"9788375780635">>,
         probes |-> <<"200_large", "200_large", "200_large">>],
    PL_TITLE_NOCOVER |->
        [hasLanguage |-> FALSE, language |-> <<>>,
         hasTitle |-> TRUE, title |-> <<"W","i","e","d","z'","m","i","n">>,
         hasPublisher |-> FALSE, publisher |-> <<>>,
         hasCover |-> FALSE, isbn |-> <<"9788375780642">>,
         probes |-> <<"200_large", "timeout", "404">>],
    PL_PUB_TAGGED |->
        [hasLanguage |-> TRUE, language |-> <<"eng">>,
         hasTitle |-> TRUE, title |-> <<"D","u","n","e"," ","[","P","L","]">>,
         hasPublisher |-> TRUE,
         publisher |-> << <<"P","e","n","g","u","i","n">>,
                          <<"W","y","d","."," ","Z","N","A","K">> >>,
         hasCover |-> TRUE, isbn |-> <<"9788375780659">>,
         probes |-> <<"200_stub", "200_large", "200_large">>],
    PL_TSUKURU |->
        [hasLanguage |-> TRUE, language |-> <<"pol">>,
         hasTitle |-> TRUE,
         title |-> <<"B","e","z","b","a","r","w","n","y"," ","T","s","u","k","u","r","u"," ","T","a","z","a","k","i"," ","i"," ","l","a","t","a"," ","j","e","g","o"," ","p","i","e","l","g","r","z","y","m","s","t","w","a">>,
         hasPublisher |-> FALSE, publisher |-> <<>>,
         hasCover |-> TRUE, isbn |-> <<>>,
         probes |-> <<"200_large", "200_large", "200_large">>],
    OTHER_COVER |->
        [hasLanguage |-> TRUE, language |-> <<"eng">>,
         hasTitle |-> TRUE, title |-> <<"D","u","n","e">>,
         hasPublisher |-> TRUE, publisher |-> << <<"P","e","n","g","u","i","n">> >>,
         hasCover |-> TRUE, isbn |-> <<>>,
         probes |-> <<"200_large", "timeout", "404">>],
    OTHER_NOCOVER |->
        [hasLanguage |-> FALSE, language |-> <<>>,
         hasTitle |-> FALSE, title |-> <<>>,
         hasPublisher |-> FALSE, publisher |-> <<>>,
         hasCover |-> FALSE, isbn |-> <<>>,
         probes |-> <<"404", "404", "404">>],
    OTHER_IMAGE |->
        [hasLanguage |-> TRUE, language |-> <<"eng">>,
         hasTitle |-> TRUE, title |-> <<"S","a","g","a">>,
         hasPublisher |-> TRUE, publisher |-> << <<"I","m","a","g","e"," ","C","o","m","i","c","s">> >>,
         hasCover |-> TRUE, isbn |-> <<>>,
         probes |-> <<"200_large", "200_large", "200_large">>],
    DUNE_1965 |->
        [hasLanguage |-> TRUE, language |-> <<"pol">>,
         hasTitle |-> TRUE, title |-> <<"D","u","n","e"," ","(","1","9","6","5",")">>,
         hasPublisher |-> FALSE, publisher |-> <<>>,
         hasCover |-> FALSE, isbn |-> <<>>,
         probes |-> <<"404", "404", "404">>],
    DUNE_MESSIAH |->
        [hasLanguage |-> TRUE, language |-> <<"eng">>,
         hasTitle |-> TRUE, title |-> <<"D","u","n","e"," ","M","e","s","s","i","a","h"," ","(","1","9","6","9",")">>,
         hasPublisher |-> FALSE, publisher |-> <<>>,
         hasCover |-> TRUE, isbn |-> <<>>,
         probes |-> <<"200_large", "200_large", "200_large">>] ]

DocKinds == DOMAIN DocTemplates

\* the docs of an answer: key is the doc's place in the provider's list,
\* kind names its template
Docs(kinds) == [i \in 1..Len(kinds) |-> [key |-> i, kind |-> kinds[i]]]

\* answers with hits: an arbitrary prefix, a run of plain hits, at most one more
OLHitLists ==
    { Docs(pre \o Repeat("OTHER_NOCOVER", r) \o post) :
        pre \in SeqsUpTo(DocKinds, MaxMixed),
        r \in 0..MaxRun,
        post \in {<<>>, <<"PL_TITLE_NOCOVER">>, <<"OTHER_COVER">>} } \ {<<>>}

\* lines 94-113: the three locale signals of a doc
IsPolishDoc(t) ==
    LET byLanguage == t.hasLanguage /\ InList("pol", t.language)
        byTitle == t.hasTitle /\ AnyCharIn(PolishChars, t.title)
        byPublisher ==
            /\ t.hasPublisher
            /\ \E i \in 1..Len(t.publisher) :
                 \E j \in 1..Len(polish_publishers) :
                    Contains(Lower(t.publisher[i]), Lower(polish_publishers[j]))
    IN byLanguage \/ byTitle \/ byPublisher

\* the templates the signals classify as Polish (computed once)
PolishKinds == {k \in DocKinds : IsPolishDoc(DocTemplates[k])}

IsPolish(book) == book.kind \in PolishKinds

HasCover(book) == DocTemplates[book.kind].hasCover

\* lines 116-125: the bucket a doc is appended to
Bucket(book) ==
    IF IsPolish(book)
    THEN IF HasCover(book) THEN 1 ELSE 2
    ELSE IF HasCover(book) THEN 3 ELSE 4

\* lines 92-125: one pass over the docs, appending each to its bucket
RECURSIVE Partition(_, _)
Partition(docs, buckets) ==
    IF docs = <<>> THEN buckets
    ELSE LET b == Bucket(Head(docs))
         IN Partition(Tail(docs),
                      [buckets EXCEPT ![b] = Append(buckets[b], Head(docs))])

\* the HEAD answers of the cover host
ProbeAnswers == {"200_large", "200_stub", "404", "timeout"}

\* check_cover_exists, lines 782-807: status 200 and a declared length
\* above 1000 bytes; an exception counts as "does not exist"
check_cover_exists(answer) == answer = "200_large"

\* lines 195-225: the cover of a search result.  cover_url is "id", "isbn"
\* or "none"; probed lists the URLs probed and the HEAD answers, in order.
ProcessCover(t) ==
    LET coverId == t.hasCover
        url0 == IF coverId THEN "id" ELSE "none"
        p0 == IF coverId THEN <<[url |-> "id", answer |-> t.probes[1]]>> ELSE <<>>
        ok0 == coverId /\ check_cover_exists(t.probes[1])
        tryIsbn == (~coverId \/ ~ok0) /\ t.isbn # <<>>
        p1 == IF tryIsbn
              THEN Append(p0, [url |-> "isbn", answer |-> t.probes[Len(p0) + 1]]) ELSE p0
        okIsbn == tryIsbn /\ check_cover_exists(t.probes[Len(p1)])
        url1 == IF okIsbn THEN "isbn" ELSE url0
        p2 == IF url1 # "none"
              THEN Append(p1, [url |-> url1, answer |-> t.probes[Len(p1) + 1]]) ELSE p1
        okLast == url1 # "none" /\ check_cover_exists(t.probes[Len(p2)])
    IN [cover_url |-> IF okLast THEN url1 ELSE "none", probed |-> p2]

\* lines 180-225: the result built from a doc, its id left open
ProcessDoc(t) ==
    [id |-> 0,
     title |-> IF t.hasTitle THEN t.title ELSE UnknownTitle,
     cover_id |-> t.hasCover,
     cover_url |-> ProcessCover(t).cover_url]

\* lines 134-146: the "[PL]" tag of a locale hit
TagPolish(r) ==
    IF Contains(r.title, PLTag) THEN r
    ELSE [r EXCEPT !.title = r.title \o PLSuffix]

\* per template: the result, the tagged result and the probes (computed once)
ProcessedKinds == [k \in DocKinds |-> ProcessDoc(DocTemplates[k])]
TaggedKinds == [k \in DocKinds |-> TagPolish(ProcessDoc(DocTemplates[k]))]
ProbedKinds == [k \in DocKinds |-> ProcessCover(DocTemplates[k]).probed]

\* lines 170-225
ProcessSearchResult(book) == [ProcessedKinds[book.kind] EXCEPT !.id = book.key]

\* lines 134-146: a result of the two Polish buckets
ProcessPolishResult(book) == [TaggedKinds[book.kind] EXCEPT !.id = book.key]

\* line 153: the slice of the last bucket
CapOther(bucket) ==
    SubSeq(bucket, 1, IF Len(bucket) < OtherNoCoverCap THEN Len(bucket) ELSE OtherNoCoverCap)

\* lines 86-125: the four buckets of a docs list
Buckets(docs) == Partition(docs, <<<<>>, <<>>, <<>>, <<>>>>)

\* lines 134-154: the docs in the order they are processed
RankedDocs(docs) ==
    LET b == Buckets(docs) IN b[1] \o b[2] \o b[3] \o CapOther(b[4])

\* RankDocs with the cover preferred over the locale: buckets 2 and 3 swapped
RankDocsCoverFirst(docs) ==
    LET b == Buckets(docs)
        other == CapOther(b[4])
    IN [i \in 1..Len(b[1]) |-> ProcessPolishResult(b[1][i])]
       \o [i \in 1..Len(b[3]) |-> ProcessSearchResult(b[3][i])]
       \o [i \in 1..Len(b[2]) |-> ProcessPolishResult(b[2][i])]
       \o [i \in 1..Len(other) |-> ProcessSearchResult(other[i])]

\* lines 134-156: the result list for a non-empty docs list
RankDocs(docs) ==
    LET b == Buckets(docs)
        pl == b[1] \o b[2]
        other == b[3] \o CapOther(b[4])
    IN [i \in 1..Len(pl) |-> ProcessPolishResult(pl[i])]
       \o [i \in 1..Len(other) |-> ProcessSearchResult(other[i])]

\* a cover URL: COVER_URL/<via>/<key>-<size>.jpg
CoverUrl(via, key, size) == [via |-> via, key |-> key, size |-> size]

\* the cover id a doc of a search answer carries
DocCoverId(book) == 400 + book.key

\* the cover URL of a processed doc (medium size, lines 197-220)
DocCoverUrl(book, via) ==
    CoverUrl(via,
             IF via = "id" THEN ToString(DocCoverId(book))
             ELSE DocTemplates[book.kind].isbn[1],
             "M")

\* the HEAD requests sent while the docs are processed, in order
RECURSIVE SearchProbes(_)
SearchProbes(docs) ==
    IF docs = <<>> THEN <<>>
    ELSE [i \in 1..Len(ProbedKinds[Head(docs).kind]) |->
            [type |-> "probe", doc |-> Head(docs).key,
             url |-> DocCoverUrl(Head(docs), ProbedKinds[Head(docs).kind][i].url),
             answer |-> ProbedKinds[Head(docs).kind][i].answer]]
         \o SearchProbes(Tail(docs))

---------------------------------------------------------------------------
(* Provider answers and the adapters' search operations                    *)

\* An answer to a GET: no answer (transport), a non-2xx status, a body that
\* is not JSON, the JSON value null, an object without the result key, an
\* object whose result list is empty, an object with hits, or (SteamGridDB)
\* an object with success = false.
Answer(shape) == [shape |-> shape, hits |-> <<>>]
Hits(h) == [shape |-> "hits", hits |-> h]
NoHitShapes == {"transport", "http_error", "not_json", "null", "no_key", "empty"}
NoHitAnswers == {Answer(s) : s \in NoHitShapes}

\* raw hit lists of the adapters that return the provider's list unchanged
RawHitLists == {[i \in 1..n |-> i] : n \in 1..MaxRaw}

Queries == {"dune", "978-83-7578-063-5"}
Languages == {"none", "pol"}
SearchTypes == {"title", "isbn", "any"}

\* response.json() of a body that is not JSON raises JSONDecodeError, which
\* is a RequestException for requests >= 2.27 and a plain ValueError before
JsonBuilds == {"json_error_is_request_exception", "json_error_is_value_error"}

\* the parameters of a search request that depend on the call
SearchReq(provider, query, language, search_type) ==
    [type |-> "search", provider |-> provider, q |-> query,
     language |-> language, search_type |-> search_type]

\* What one pass through a search body does with an answer:
\*   "caught"  the except clause returns []
\*   "raised"  an exception the except clause does not name
\*   "zero"    the no-results branch
\*   "hits"    the results branch
\* openlibrary.py 73-82, 157, 166-168
OLOutcome(a, build) ==
    CASE a.shape \in {"transport", "http_error"} -> "caught"
      [] a.shape = "not_json" ->
            IF build = "json_error_is_request_exception" THEN "caught" ELSE "raised"
      [] a.shape = "null" -> "raised"
      [] a.shape \in {"no_key", "empty"} -> "zero"
      [] OTHER -> "hits"

\* googlebooks.py 65-76, 85-87: "items" in data, whatever the list holds
GBOutcome(a, build) ==
    CASE a.shape \in {"transport", "http_error"} -> "caught"
      [] a.shape = "not_json" ->
            IF build = "json_error_is_request_exception" THEN "caught" ELSE "raised"
      [] a.shape = "null" -> "raised"
      [] a.shape = "no_key" -> "zero"
      [] OTHER -> "hits"

\* the guard of the retry with the ISBN exception forgotten
RetryAnyKind(language, search_type) == language # "none"

\* openlibrary.py 159 and googlebooks.py 78: the guard of the retry
RetryWithoutLanguage(language, search_type) ==
    language # "none" /\ search_type # "isbn"

\* what a search call leaves behind
Caught(sent) == [reqs |-> sent, ret |-> List(<<>>), raised |-> FALSE]
Raised(sent) == [reqs |-> sent, ret |-> None, raised |-> TRUE]
Returned(sent, list) == [reqs |-> sent, ret |-> List(list), raised |-> FALSE]

\* openlibrary.py 73-168: one pass through the body, the retry excluded
OLPass(a, build, sent) ==
    CASE OLOutcome(a, build) = "caught" -> Caught(sent)
      [] OLOutcome(a, build) = "raised" -> Raised(sent)
      [] OLOutcome(a, build) = "zero" -> Returned(sent, <<>>)
      [] OTHER -> Returned(sent \o SearchProbes(RankedDocs(a.hits)), RankDocs(a.hits))

\* OpenLibraryService.search_book.  The recursive call passes language=None,
\* so it cannot recurse again: a2 is the answer to the second request.
search_book_openlibrary(query, language, search_type, a1, a2, build) ==
    LET req1 == SearchReq("openlibrary", query, language, search_type)
        req2 == SearchReq("openlibrary", query, "none", search_type)
    IN IF OLOutcome(a1, build) = "zero" /\ RetryWithoutLanguage(language, search_type)
       THEN OLPass(a2, build, <<req1, req2>>)
       ELSE OLPass(a1, build, <<req1>>)

\* googlebooks.py 65-87: one pass through the body, the retry excluded
GBPass(a, build, sent) ==
    CASE GBOutcome(a, build) = "caught" -> Caught(sent)
      [] GBOutcome(a, build) = "raised" -> Raised(sent)
      [] GBOutcome(a, build) = "zero" -> Returned(sent, <<>>)
      [] OTHER -> Returned(sent, a.hits)

\* GoogleBooksService.search_book
search_book_google(query, language, search_type, a1, a2, build) ==
    LET req1 == SearchReq("googlebooks", query, language, search_type)
        req2 == SearchReq("googlebooks", query, "none", search_type)
    IN IF GBOutcome(a1, build) = "zero" /\ RetryWithoutLanguage(language, search_type)
       THEN GBPass(a2, build, <<req1, req2>>)
       ELSE GBPass(a1, build, <<req1>>)

\* JikanService.search_anime, jikan.py 38-57
search_anime(anime_name, a, build) ==
    LET sent == <<[type |-> "search", provider |-> "jikan", q |-> anime_name]>>
    IN CASE a.shape \in {"transport", "http_error"} -> Caught(sent)
         [] a.shape = "not_json" ->
               IF build = "json_error_is_request_exception"
               THEN Caught(sent) ELSE Raised(sent)
         [] a.shape = "null" -> Raised(sent)
         [] a.shape = "no_key" -> Returned(sent, <<>>)
         [] OTHER -> Returned(sent, a.hits)

UnknownArtist == <<"U","n","k","n","o","w","n"," ","A","r","t","i","s","t">>
ArtistSeparator == <<" ","-"," ">>

\* first place where p starts in s, 0 when there is none
IndexOf(s, p) ==
    IF Contains(s, p)
    THEN 1 + CHOOSE i \in 0..(Len(s) - Len(p)) :
                /\ SubSeq(s, i + 1, i + Len(p)) = p
                /\ \A j \in 0..(i - 1) : SubSeq(s, j + 1, j + Len(p)) # p
    ELSE 0

\* str.strip() of blanks
RECURSIVE Strip(_)
Strip(s) ==
    IF s = <<>> THEN s
    ELSE IF Head(s) = " " THEN Strip(Tail(s))
    ELSE IF s[Len(s)] = " " THEN Strip(SubSeq(s, 1, Len(s) - 1))
    ELSE s

\* the releases a Discogs answer is built from
VinylTemplates == [
    WITH_ARTIST |-> [hasTitle |-> TRUE,
                     title |-> <<"H","a","n","c","o","c","k"," ","-"," ","S","e","x","t","a","n","t">>],
    NO_ARTIST |-> [hasTitle |-> TRUE, title |-> <<"S","e","x","t","a","n","t">>],
    NO_TITLE |-> [hasTitle |-> FALSE, title |-> <<>>] ]

VinylHitLists ==
    {[i \in 1..Len(k) |-> [id |-> i, t |-> VinylTemplates[k[i]]]] :
        k \in SeqsUpTo(DOMAIN VinylTemplates, MaxRaw)} \ {<<>>}

\* DiscogsService._process_search_result, discogs.py 95-129
ProcessVinylResult(vinyl) ==
    LET title == IF vinyl.t.hasTitle THEN vinyl.t.title ELSE UnknownTitle
        at == IndexOf(title, ArtistSeparator)
    IN [id |-> vinyl.id,
        title |-> title,
        artist |-> IF at > 0 THEN Strip(SubSeq(title, 1, at - 1)) ELSE UnknownArtist,
        album |-> IF at > 0
                  THEN Strip(SubSeq(title, at + Len(ArtistSeparator), Len(title)))
                  ELSE title]

\* DiscogsService.search_vinyl, discogs.py 46-93
search_vinyl(query, search_type, a, build) ==
    LET sent == <<[type |-> "search", provider |-> "discogs", q |-> query,
                   search_type |-> search_type]>>
    IN CASE a.shape \in {"transport", "http_error"} -> Caught(sent)
         [] a.shape = "not_json" ->
               IF build = "json_error_is_request_exception"
               THEN Caught(sent) ELSE Raised(sent)
         [] a.shape = "null" -> Raised(sent)
         [] a.shape \in {"no_key", "empty"} -> Returned(sent, <<>>)
         [] OTHER -> Returned(sent, [i \in 1..Len(a.hits) |-> ProcessVinylResult(a.hits[i])])

\* SteamGridDB answers have more shapes: success = false with and without
\* an errors list entry, and success = true without a data key.
SteamShapes == NoHitShapes \cup {"api_error", "api_error_no_message", "success_no_data"}

\* SteamGridDBService.search_game, steamgriddb.py 35-66
search_game(api_key_set, game_name, a, build) ==
    LET sent == <<[type |-> "search", provider |-> "steamgriddb", q |-> game_name]>>
    IN CASE ~api_key_set -> Raised(<<>>)
         [] a.shape \in {"transport", "http_error"} -> Caught(sent)
         [] a.shape = "not_json" ->
               IF build = "json_error_is_request_exception"
               THEN Caught(sent) ELSE Raised(sent)
         [] a.shape \in {"null", "no_key", "api_error_no_message", "success_no_data"} ->
               Raised(sent)
         [] a.shape = "api_error" -> Returned(sent, <<>>)
         [] OTHER -> Returned(sent, a.hits)

---------------------------------------------------------------------------
(* The search specification: one search call per visit of the menu         *)

\* the builds that can tell the answers apart
BuildsFor(answers) ==
    IF \E a \in answers : a.shape = "not_json"
    THEN JsonBuilds ELSE {"json_error_is_request_exception"}

Unused == Answer("unused")

Finish(name, a, r) ==
    /\ op' = name
    /\ args' = a
    /\ reqs' = r.reqs
    /\ ret' = r.ret
    /\ raised' = r.raised
    /\ UNCHANGED store

Init ==
    /\ op = "menu"
    /\ args = NoArgs
    /\ reqs = <<>>
    /\ ret = None
    /\ raised = FALSE
    /\ store = <<>>

\* main.py 52-79, books.py 51-77: back at the menu loop
Menu ==
    /\ op \notin {"menu", "get_book_details.lookup"}
    /\ op' = "menu"
    /\ args' = NoArgs
    /\ reqs' = <<>>
    /\ ret' = None
    /\ raised' = FALSE
    /\ UNCHANGED store

SearchBookOpenLibrary ==
    /\ op = "menu"
    /\ \E query \in Queries, language \in Languages, search_type \in SearchTypes,
          a1 \in NoHitAnswers \cup {Hits(h) : h \in OLHitLists} :
        \E a2 \in IF OLOutcome(a1, "json_error_is_value_error") = "zero"
                     /\ RetryWithoutLanguage(language, search_type)
                  THEN NoHitAnswers \cup {Hits(h) : h \in OLHitLists}
                  ELSE {Unused} :
          \E build \in BuildsFor({a1, a2}) :
            Finish("search_book_openlibrary",
                   [query |-> query, language |-> language, search_type |-> search_type,
                    a1 |-> a1, a2 |-> a2, build |-> build],
                   search_book_openlibrary(query, language, search_type, a1, a2, build))

SearchBookGoogle ==
    /\ op = "menu"
    /\ \E query \in Queries, language \in Languages, search_type \in SearchTypes,
          a1 \in NoHitAnswers \cup {Hits(h) : h \in RawHitLists} :
        \E a2 \in IF GBOutcome(a1, "json_error_is_value_error") = "zero"
                     /\ RetryWithoutLanguage(language, search_type)
                  THEN NoHitAnswers \cup {Hits(h) : h \in RawHitLists}
                  ELSE {Unused} :
          \E build \in BuildsFor({a1, a2}) :
            Finish("search_book_google",
                   [query |-> query, language |-> language, search_type |-> search_type,
                    a1 |-> a1, a2 |-> a2, build |-> build],
                   search_book_google(query, language, search_type, a1, a2, build))

SearchAnime ==
    /\ op = "menu"
    /\ \E a \in NoHitAnswers \cup {Hits(h) : h \in RawHitLists} :
        \E build \in BuildsFor({a}) :
          Finish("search_anime", [query |-> "dune", a1 |-> a, build |-> build],
                 search_anime("dune", a, build))

SearchVinyl ==
    /\ op = "menu"
    /\ \E search_type \in {"title", "artist", "label", "all"},
          a \in NoHitAnswers \cup {Hits(h) : h \in VinylHitLists} :
        \E build \in BuildsFor({a}) :
          Finish("search_vinyl",
                 [query |-> "dune", search_type |-> search_type, a1 |-> a, build |-> build],
                 search_vinyl("dune", search_type, a, build))

SearchGame ==
    /\ op = "menu"
    /\ \E api_key_set \in BOOLEAN,
          a \in {Answer(s) : s \in SteamShapes} \cup {Hits(h) : h \in RawHitLists} :
        \E build \in BuildsFor({a}) :
          Finish("search_game",
                 [query |-> "dune", api_key_set |-> api_key_set, a1 |-> a, build |-> build],
                 search_game(api_key_set, "dune", a, build))

NextSearch ==
    \/ Menu
    \/ SearchBookOpenLibrary
    \/ SearchBookGoogle
    \/ SearchAnime
    \/ SearchVinyl
    \/ SearchGame

SearchSpec == Init /\ [][NextSearch]_vars

---------------------------------------------------------------------------
(* Properties of the search operations                                     *)

IsBookSearch == op \in {"search_book_openlibrary", "search_book_google"}
IsSearch == IsBookSearch \/ op \in {"search_anime", "search_vinyl", "search_game"}

\* the search-endpoint requests among the requests sent
SearchReqs == SelectSeq(reqs, LAMBDA r : r.type = "search")

\* the answer the returned list was built from
FinalAnswer == IF args.a2 = Unused THEN args.a1 ELSE args.a2

ZeroHits(a) == a.shape \in {"no_key", "empty"}

\* the keys of the docs with the given locale and cover flags, in list order
RECURSIVE KeysOf(_, _, _)
KeysOf(docs, polish, cover) ==
    IF docs = <<>> THEN <<>>
    ELSE (IF IsPolish(Head(docs)) = polish /\ HasCover(Head(docs)) = cover
          THEN <<Head(docs).key>> ELSE <<>>)
         \o KeysOf(Tail(docs), polish, cover)

FirstTen(s) == [i \in 1..(IF Len(s) > 10 THEN 10 ELSE Len(s)) |-> s[i]]

\* C1: for a non-empty hit list, OpenLibraryService.search_book returns the
\* hits of the four buckets (locale+cover, locale, cover, neither) one
\* bucket after the other, each in the provider's order; only the last
\* bucket is cut, to its first 10 hits.
C1_BucketOrder ==
    (op = "search_book_openlibrary" /\ FinalAnswer.shape = "hits") =>
        /\ ~raised
        /\ ret.tag = "list"
        /\ [i \in 1..Len(ret.val) |-> ret.val[i].id]
             = KeysOf(FinalAnswer.hits, TRUE, TRUE)
               \o KeysOf(FinalAnswer.hits, TRUE, FALSE)
               \o KeysOf(FinalAnswer.hits, FALSE, TRUE)
               \o FirstTen(KeysOf(FinalAnswer.hits, FALSE, FALSE))

\* a list whose last bucket is cut, whose first three buckets are all
\* populated and in which a locale hit follows a plain hit at the provider
C1_Witness ==
    /\ op = "search_book_openlibrary"
    /\ FinalAnswer.shape = "hits"
    /\ Len(KeysOf(FinalAnswer.hits, FALSE, FALSE)) > 10
    /\ KeysOf(FinalAnswer.hits, TRUE, TRUE) # <<>>
    /\ KeysOf(FinalAnswer.hits, TRUE, FALSE) # <<>>
    /\ KeysOf(FinalAnswer.hits, FALSE, TRUE) # <<>>
    /\ IsPolish(FinalAnswer.hits[Len(FinalAnswer.hits)])
    /\ Len(ret.val) = Len(FinalAnswer.hits) - 1

\* the doc of the provider's list a returned hit was made from
DocOf(hit) == DocTemplates[FinalAnswer.hits[hit.id].kind]

\* the three locale signals: a declared language that is the locale tag, a
\* locale letter in the title, a declared publisher that is on the list
DeclaresPol(t) == t.hasLanguage /\ InList("pol", t.language)
LocaleTitle(t) == t.hasTitle /\ AnyCharIn(PolishChars, t.title)
ListedPublisher(t) ==
    t.hasPublisher /\ \E i \in 1..Len(t.publisher) : InList(t.publisher[i], polish_publishers)

\* a declared publisher whose name contains a listed name, letter case aside
NearListedPublisher(t) ==
    /\ t.hasPublisher
    /\ \E i \in 1..Len(t.publisher) : \E j \in 1..Len(polish_publishers) :
          Contains(Lower(t.publisher[i]), Lower(polish_publishers[j]))

\* the hit was put in one of the two locale buckets: it carries the tag
\* and stands before every hit that does not
InLocaleBuckets(i) ==
    /\ Contains(ret.val[i].title, PLTag)
    /\ \A j \in 1..(i - 1) : Contains(ret.val[j].title, PLTag)

\* C23: a hit search_book returns is treated as a locale match exactly when
\* its doc declares the locale language, or has a locale letter in its
\* title, or declares a publisher that is on the publisher list.
C23_LocaleSignals ==
    (op = "search_book_openlibrary" /\ FinalAnswer.shape = "hits" /\ ret.tag = "list") =>
        \A i \in 1..Len(ret.val) :
            InLocaleBuckets(i)
                <=> (DeclaresPol(DocOf(ret.val[i])) \/ LocaleTitle(DocOf(ret.val[i]))
                     \/ ListedPublisher(DocOf(ret.val[i])))

\* C23 with the publisher signal read as the code tests it
C23_NearSignals ==
    (op = "search_book_openlibrary" /\ FinalAnswer.shape = "hits" /\ ret.tag = "list") =>
        \A i \in 1..Len(ret.val) :
            InLocaleBuckets(i)
                <=> (DeclaresPol(DocOf(ret.val[i])) \/ LocaleTitle(DocOf(ret.val[i]))
                     \/ NearListedPublisher(DocOf(ret.val[i])))

Dune1965 == <<"D","u","n","e"," ","(","1","9","6","5",")">>
DuneMessiah1969 == <<"D","u","n","e"," ","M","e","s","s","i","a","h"," ","(","1","9","6","9",")">>

\* a title search answered with exactly the two hits of the scenario:
\* "Dune (1965)", a locale match without cover, and "Dune Messiah (1969)",
\* another hit with a cover
DuneScenario ==
    /\ op = "search_book_openlibrary"
    /\ args.search_type = "title"
    /\ FinalAnswer.shape = "hits"
    /\ Len(FinalAnswer.hits) = 2
    /\ {FinalAnswer.hits[1].kind, FinalAnswer.hits[2].kind} = {"DUNE_1965", "DUNE_MESSIAH"}

\* the titles of the returned hits without the locale tag
PlainTitles ==
    [i \in 1..Len(ret.val) |->
        IF Contains(ret.val[i].title, PLSuffix)
        THEN SubSeq(ret.val[i].title, 1, Len(ret.val[i].title) - Len(PLSuffix))
        ELSE ret.val[i].title]

\* C24 as stated: the search of the scenario returns "Dune Messiah (1969)"
\* before "Dune (1965)".
C24_ScenarioAsStated ==
    DuneScenario => (ret.tag = "list" /\ PlainTitles = <<DuneMessiah1969, Dune1965>>)

\* C24: the search of the scenario returns the locale match "Dune (1965)",
\* tagged as such, before "Dune Messiah (1969)", in whichever order the
\* provider lists the two.
C24_ScenarioOrder ==
    DuneScenario =>
        /\ ret.tag = "list"
        /\ [i \in 1..Len(ret.val) |-> ret.val[i].title]
             = <<Dune1965 \o PLSuffix, DuneMessiah1969>>

\* the provider lists "Dune Messiah (1969)" first
C24_Witness ==
    /\ DuneScenario
    /\ FinalAnswer.hits[1].kind = "DUNE_MESSIAH"
    /\ ret.val[1].id = 2
    /\ PlainTitles = <<Dune1965, DuneMessiah1969>>

\* C2: a book search with a locale filter and a kind other than ISBN whose
\* first answer has zero hits sends exactly one more request, the same but
\* for the locale filter, and returns what the second answer yields; no
\* search sends a third request.
C2_FallbackOnce ==
    IsBookSearch =>
        /\ Len(SearchReqs) <= 2
        /\ (args.language # "none" /\ args.search_type # "isbn" /\ ZeroHits(args.a1)) =>
             /\ Len(SearchReqs) = 2
             /\ SearchReqs[2] = [SearchReqs[1] EXCEPT !.language = "none"]
             /\ SearchReqs[1].language = args.language
             /\ args.a2.shape = "hits" =>
                  (ret.tag = "list" /\ Len(ret.val) > 0)
             /\ args.a2.shape # "hits" => (raised \/ ret = List(<<>>))

\* C3: an ISBN search whose answer has zero hits returns the empty list
\* after exactly one request, whatever the locale filter.
C3_IsbnNoFallback ==
    (IsBookSearch /\ args.search_type = "isbn" /\ ZeroHits(args.a1)) =>
        /\ reqs = <<SearchReq(IF op = "search_book_openlibrary"
                              THEN "openlibrary" ELSE "googlebooks",
                              args.query, args.language, "isbn")>>
        /\ ret = List(<<>>)
        /\ ~raised

\* an ISBN search with a locale filter and an answer without hits
C3_Witness ==
    /\ IsBookSearch
    /\ args.search_type = "isbn"
    /\ args.language = "pol"
    /\ ZeroHits(args.a1)
    /\ ret = List(<<>>)

\* answers that are a failure of the transport, a non-2xx status or JSON of
\* an unexpected shape
FailureShapes == {"transport", "http_error", "null", "no_key",
                  "api_error", "api_error_no_message", "success_no_data"}

\* C4: a search whose (last) answer is a transport failure, a non-2xx
\* status or JSON of an unexpected or missing shape returns the empty list,
\* and no exception leaves the call.
C4_SearchNeverRaises ==
    (/\ IsSearch
     /\ (op = "search_game" => args.api_key_set)
     /\ (IF IsBookSearch THEN FinalAnswer ELSE args.a1).shape \in FailureShapes) =>
        (~raised /\ ret = List(<<>>))

---------------------------------------------------------------------------
(* Detail hydration: Jikan, Google Books, Discogs                          *)

\* longest relations list of an anime record
MaxRelations == 2
\* longest images list of a Discogs release
MaxImages == 2

\* A JSON member that may be missing, and a Python value that may be None:
\* Absent, or Some(v).  dict.get(key) of a member is the member itself.
Absent == [has |-> FALSE]
Some(v) == [has |-> TRUE, val |-> v]
\* dict.get(key, default)
GetOr(field, default) == IF field.has THEN field.val ELSE default

\* the JSON object {}
EmptyObject == [empty |-> TRUE]

\* a failed call that hands back an empty record
NotFoundPartial(sent) == [reqs |-> sent, ret |-> Rec(EmptyObject), raised |-> FALSE]

\* what a detail call leaves behind
NotFound(sent) == [reqs |-> sent, ret |-> None, raised |-> FALSE]
Thrown(sent) == [reqs |-> sent, ret |-> None, raised |-> TRUE]
Record(sent, r) == [reqs |-> sent, ret |-> Rec(r), raised |-> FALSE]

DetailReq(provider, id) == [type |-> "detail", provider |-> provider, id |-> id]

\* answers of a detail endpoint that carry no object: no answer, a non-2xx
\* status, a body that is not JSON, the JSON value null, the object {}
NoDetailShapes == {"transport", "http_error", "not_json", "null", "empty"}
NoDetailAnswers == {Answer(s) : s \in NoDetailShapes}

\* response.json() on a body that is not JSON: caught as a
\* RequestException or not, depending on the build of requests
JsonError(sent, build) ==
    IF build = "json_error_is_request_exception" THEN NotFound(sent) ELSE Thrown(sent)

RelationKinds == {"Sequel", "Prequel", "Side story"}

FinishedAiring == <<"F","i","n","i","s","h","e","d"," ","A","i","r","i","n","g">>
Sunrise == <<"S","u","n","r","i","s","e">>
Bones == <<"B","o","n","e","s">>
BountyHunters == <<"B","o","u","n","t","y"," ","h","u","n","t","e","r","s">>
CurrentlyAiring == <<"C","u","r","r","e","n","t","l","y"," ","A","i","r","i","n","g">>

\* the "data" objects of Jikan's anime endpoint
AnimeRecords ==
    [title : {Absent, Some(<<"C","o","w","b","o","y"," ","B","e","b","o","p">>)},
     episodes : {Some(26)},
     status : {Some(FinishedAiring)},
     synopsis : {Some(BountyHunters)},
     year : {Absent, Some(1998)},
     url : {Some("https://myanimelist.net/anime/1")},
     image : {"no_images", "no_large", "https://cdn.myanimelist.net/1l.jpg"},
     studios : {<<>>, <<Sunrise>>, <<Sunrise, Bones>>},
     relations : {Absent} \cup {Some(r) : r \in SeqsUpTo(RelationKinds, MaxRelations)}]

\* JikanService.get_anime_details, jikan.py 59-89.  "no_key" is an object
\* without "data", "empty" an object whose "data" is {}.
get_anime_details(anime_id, a, build) ==
    LET sent == <<DetailReq("jikan", anime_id)>>
    IN CASE a.shape \in {"transport", "http_error"} -> NotFound(sent)
         [] a.shape = "not_json" -> JsonError(sent, build)
         [] a.shape = "null" -> Thrown(sent)
         [] a.shape = "no_key" -> NotFound(sent)
         [] a.shape = "empty" -> Record(sent, EmptyObject)
         [] OTHER -> Record(sent, a.hits)

\* every relation counted as a season
CountRelatedAll(relations) == Len(relations)

\* jikan.py 152-157: the relations that count as a season
RECURSIVE CountRelated(_)
CountRelated(relations) ==
    IF relations = <<>> THEN 0
    ELSE (IF Head(relations) \in {"Sequel", "Prequel"} THEN 1 ELSE 0)
         + CountRelated(Tail(relations))

\* jikan.py 139, 150-159
Seasons(d) ==
    IF d.relations.has /\ CountRelated(d.relations.val) > 0
    THEN CountRelated(d.relations.val) + 1
    ELSE 1

\* JikanService.get_anime_full_details, jikan.py 113-161
get_anime_full_details(anime_id, a, build) ==
    LET got == get_anime_details(anime_id, a, build)
        d == got.ret.val
    IN IF got.raised \/ got.ret = None \/ got.ret = Rec(EmptyObject)
       THEN [got EXCEPT !.ret = None]
       ELSE Record(got.reqs,
                [title |-> d.title,
                 episodes |-> d.episodes,
                 status |-> d.status,
                 synopsis |-> d.synopsis,
                 year |-> d.year,
                 url |-> d.url,
                 image_url |-> IF d.image \in {"no_images", "no_large"}
                               THEN Absent ELSE Some(d.image),
                 studios |-> d.studios,
                 seasons |-> Seasons(d)])

\* the sizes of Google's imageLinks, largest first (googlebooks.py 169, 182)
ImageSizes == <<"extraLarge", "large", "medium", "small", "thumbnail">>

\* an image link as Google sends it, and after lines 171-177
RawImage(size) == [size |-> size, scheme |-> "http", zoom |-> TRUE]
FixImage(img) ==
    [img EXCEPT !.scheme = IF img.scheme = "http" THEN "https" ELSE img.scheme,
                !.zoom = FALSE]

\* the volumes of Google's volume endpoint
Volumes ==
    [title : {Absent, Some(<<"D","i","u","n","a">>)},
     authors : {<<>>, <<"Frank Herbert">>},
     publisher : {Some("Rebis")},
     publishedDate : {Absent, Some("2007-05-15")},
     pageCount : {Some(672)},
     categories : {<<"Fiction">>},
     hasVolumeInfo : BOOLEAN,
     imageLinks : {Absent, Some({}), Some({"thumbnail"}), Some({"small", "large"})},
     isbn : {<<>>, <<[type |-> "ISBN_10", identifier |-> "8373015930"],
                     [type |-> "ISBN_13", identifier |-> "9788373015937"]>>}]

\* GoogleBooksService.get_book_details, googlebooks.py 89-114
google_get_book_details(book_id, a, build) ==
    LET sent == <<DetailReq("googlebooks", book_id)>>
    IN CASE a.shape \in {"transport", "http_error"} -> NotFound(sent)
         [] a.shape = "not_json" -> JsonError(sent, build)
         [] a.shape = "null" -> NotFound(sent)
         [] a.shape = "empty" -> Record(sent, EmptyObject)
         [] OTHER -> Record(sent, a.hits)

\* googlebooks.py 181-185: the largest size present
LargestImage(sizes) ==
    IF \E i \in 1..Len(ImageSizes) : ImageSizes[i] \in sizes
    THEN Some(FixImage(RawImage(ImageSizes[
            CHOOSE i \in 1..Len(ImageSizes) :
                /\ ImageSizes[i] \in sizes
                /\ \A j \in 1..(i - 1) : ImageSizes[j] \notin sizes])))
    ELSE Absent

\* googlebooks.py 187-193: the last identifier of the type
IsbnOf(ids, type) ==
    IF \E i \in 1..Len(ids) : ids[i].type = type
    THEN Some(ids[CHOOSE i \in 1..Len(ids) :
                /\ ids[i].type = type
                /\ \A j \in (i + 1)..Len(ids) : ids[j].type # type].identifier)
    ELSE Absent

\* GoogleBooksService.get_book_full_details, googlebooks.py 116-195
get_book_full_details(book_id, a, build) ==
    LET got == google_get_book_details(book_id, a, build)
        v == got.ret.val
    IN IF got.raised \/ got.ret = None \/ got.ret = Rec(EmptyObject)
       THEN [got EXCEPT !.ret = None]
       ELSE Record(got.reqs,
                [title |-> IF v.hasVolumeInfo THEN v.title ELSE Absent,
                 authors |-> IF v.hasVolumeInfo THEN v.authors ELSE <<>>,
                 publisher |-> IF v.hasVolumeInfo THEN v.publisher ELSE Absent,
                 published_date |-> IF v.hasVolumeInfo THEN v.publishedDate ELSE Absent,
                 page_count |-> IF v.hasVolumeInfo THEN v.pageCount ELSE Absent,
                 categories |-> IF v.hasVolumeInfo THEN v.categories ELSE <<>>,
                 image_url |-> IF v.hasVolumeInfo /\ v.imageLinks.has
                               THEN LargestImage(v.imageLinks.val) ELSE Absent,
                 isbn_13 |-> IF v.hasVolumeInfo THEN IsbnOf(v.isbn, "ISBN_13") ELSE Absent,
                 isbn_10 |-> IF v.hasVolumeInfo THEN IsbnOf(v.isbn, "ISBN_10") ELSE Absent])

\* str.replace(p, ""): s without the occurrences of p, left to right
RECURSIVE Remove(_, _)
Remove(s, p) ==
    IF Len(s) < Len(p) THEN s
    ELSE IF SubSeq(s, 1, Len(p)) = p
         THEN Remove(SubSeq(s, Len(p) + 1, Len(s)), p)
         ELSE <<Head(s)>> \o Remove(Tail(s), p)

\* discogs.py 180: the artist's name without the parentheses of its number
ArtistName(artist) == Remove(Remove(GetOr(artist, <<>>), <<" ","(">>), <<")">>)

\* the images of a Discogs release
ImageTemplates == [
    PRIMARY |-> [type |-> "primary", uri |-> Some("https://i.discogs.com/p.jpg")],
    PRIMARY_NO_URI |-> [type |-> "primary", uri |-> Absent],
    SECONDARY |-> [type |-> "secondary", uri |-> Some("https://i.discogs.com/s.jpg")] ]

\* the releases of Discogs' release endpoint
Releases ==
    [id : {Some(249504)},
     title : {Absent, Some(<<"K","i","n","d"," ","o","f"," ","B","l","u","e">>)},
     year : {Absent, Some(1959)},
     artists : {Absent,
                Some(<<Some(<<"M","i","l","e","s"," ","D","a","v","i","s"," ","(","2",")">>)>>),
                Some(<<Absent>>)},
     genres : {<<"Jazz">>},
     images : {Absent} \cup
              {Some([i \in 1..Len(k) |-> ImageTemplates[k[i]]]) :
                  k \in SeqsUpTo(DOMAIN ImageTemplates, MaxImages)}]

\* discogs.py 211-224: the primary image, or else the first one
ReleaseCover(images) ==
    LET primary == {i \in 1..Len(images) : images[i].type = "primary"}
        first == CHOOSE i \in primary : \A j \in primary : i <= j
        uri == IF primary # {} THEN GetOr(images[first].uri, "") ELSE "None"
    IN IF uri \notin {"None", ""} THEN Some(uri)
       ELSE IF images # <<>> THEN Some(GetOr(images[1].uri, ""))
       ELSE Absent

\* DiscogsService.get_vinyl_details, discogs.py 131-228
get_vinyl_details(vinyl_id, a, build) ==
    LET sent == <<DetailReq("discogs", vinyl_id)>>
        d == a.hits
    IN CASE a.shape \in {"transport", "http_error"} -> NotFound(sent)
         [] a.shape = "not_json" -> JsonError(sent, build)
         [] a.shape = "null" -> Thrown(sent)
         [] a.shape = "empty" ->
               Record(sent, [id |-> "", title |-> Some(UnknownTitle),
                             album |-> Some(UnknownTitle), year |-> Absent,
                             artist |-> <<>>, genre |-> <<>>, cover_url |-> Absent])
         [] OTHER ->
               Record(sent,
                   [id |-> IF d.id.has THEN ToString(d.id.val) ELSE "",
                    title |-> Some(GetOr(d.title, UnknownTitle)),
                    album |-> Some(GetOr(d.title, UnknownTitle)),
                    year |-> d.year,
                    artist |-> IF d.artists.has
                               THEN [i \in 1..Len(d.artists.val) |->
                                        ArtistName(d.artists.val[i])]
                               ELSE <<>>,
                    genre |-> d.genres,
                    cover_url |-> IF d.images.has
                                  THEN ReleaseCover(d.images.val) ELSE Absent])

---------------------------------------------------------------------------
(* Detail hydration: OpenLibraryService.get_book_details                   *)

\* longest editions list of a work
MaxEditions == 2
\* longest author-reference list of a work
MaxAuthors == 2

TitleDune == <<"D","u","n","e">>
TitleDiuna == <<"D","i","u","n","a">>
TitleSolaris == <<"S","o","l","a","r","i","s">>
TitleWiedzmin == <<"W","i","e","d","z'","m","i","n">>
TitleTsukuruEn == <<"C","o","l","o","r","l","e","s","s"," ","T","s","u","k","u","r","u"," ","T","a","z","a","k","i"," ","a","n","d"," ","H","i","s"," ","Y","e","a","r","s"," ","o","f"," ","P","i","l","g","r","i","m","a","g","e">>
TsukuruTazaki == <<"T","s","u","k","u","r","u"," ","T","a","z","a","k","i">>
TsukuruKanji == <<"u591a","u5d0e","u3064","u304f","u308b">>
BezbarwnyTsukuru == <<"B","e","z","b","a","r","w","n","y"," ","T","s","u","k","u","r","u"," ","T","a","z","a","k","i">>
BezbarwnyTsukuruFull == <<"B","e","z","b","a","r","w","n","y"," ","T","s","u","k","u","r","u"," ","T","a","z","a","k","i"," ","i"," ","l","a","t","a"," ","j","e","g","o"," ","p","i","e","l","g","r","z","y","m","s","t","w","a">>
UnknownAuthor == <<"U","n","k","n","o","w","n"," ","A","u","t","h","o","r">>
FrankHerbert == <<"F","r","a","n","k"," ","H","e","r","b","e","r","t">>

\* a request together with the answer it got
Exchange(type, target, a) == [type |-> type, target |-> target, answer |-> a]

Probe(url, answer) == [type |-> "probe", url |-> url, answer |-> answer]

\* the editions of an editions answer.  has* say whether the JSON key is
\* present; an edition's cover id is derived from its place in the list.
EditionTemplates == [
    PL_LANG_COVER |->
        [hasLanguages |-> TRUE, languages |-> <<"/languages/eng", "/languages/pol">>,
         title |-> Some(TitleDiuna), hasCovers |-> TRUE, hasKey |-> TRUE,
         isbn_13 |-> Some(<<"9788375780635">>), isbn_10 |-> Some(<<"8375780634">>)],
    PL_LANG_BARE |->
        [hasLanguages |-> TRUE, languages |-> <<"/languages/pol">>,
         title |-> Absent, hasCovers |-> FALSE, hasKey |-> TRUE,
         isbn_13 |-> Absent, isbn_10 |-> Some(<<"8375780642">>)],
    PL_TITLE_NOKEY |->
        [hasLanguages |-> FALSE, languages |-> <<>>,
         title |-> Some(TitleWiedzmin), hasCovers |-> TRUE, hasKey |-> FALSE,
         isbn_13 |-> Absent, isbn_10 |-> Absent],
    PL_TSUKURU |->
        [hasLanguages |-> TRUE, languages |-> <<"/languages/eng">>,
         title |-> Some(BezbarwnyTsukuruFull), hasCovers |-> FALSE, hasKey |-> TRUE,
         isbn_13 |-> Absent, isbn_10 |-> Absent],
    EN_COVER |->
        [hasLanguages |-> TRUE, languages |-> <<"/languages/eng">>,
         title |-> Some(TitleDune), hasCovers |-> TRUE, hasKey |-> TRUE,
         isbn_13 |-> Some(<<"9780441013593">>), isbn_10 |-> Absent],
    EN_BARE |->
        [hasLanguages |-> FALSE, languages |-> <<>>,
         title |-> Absent, hasCovers |-> FALSE, hasKey |-> FALSE,
         isbn_13 |-> Absent, isbn_10 |-> Absent] ]

EditionKinds == DOMAIN EditionTemplates

\* lines 278-281: "/languages/pol" in lang["key"]
IsPolKey(key) == key = "/languages/pol"

\* line 385: lang["key"].split("/")[-1]
LangCode(key) ==
    CASE key = "/languages/pol" -> "pol"
      [] key = "/languages/eng" -> "eng"
      [] OTHER -> key

\* lines 274-287: the edition's language list or title says Polish
IsPolishEdition(t) ==
    \/ t.hasLanguages /\ \E i \in 1..Len(t.languages) : IsPolKey(t.languages[i])
    \/ t.title.has /\ AnyCharIn(PolishChars, t.title.val)

\* line 290: the special-cased title
IsTsukuruEdition(t) == t.title.has /\ Contains(t.title.val, BezbarwnyTsukuru)

\* per template, computed once
PolishEditionKinds == {k \in EditionKinds : IsPolishEdition(EditionTemplates[k])}
TsukuruEditionKinds == {k \in EditionKinds : IsTsukuruEdition(EditionTemplates[k])}

\* the cover id an edition of the list carries
EditionCover(e) == 200 + e.key

\* lines 271-293: the Polish editions, the special-cased title put first
RECURSIVE CollectPolish(_, _)
CollectPolish(entries, polish_editions) ==
    IF entries = <<>> THEN polish_editions
    ELSE CollectPolish(Tail(entries),
            IF Head(entries).kind \in TsukuruEditionKinds
            THEN <<Head(entries)>> \o polish_editions
            ELSE IF Head(entries).kind \in PolishEditionKinds
                 THEN Append(polish_editions, Head(entries))
                 ELSE polish_editions)

\* the selection with list order preferred over the cover
SelectFirstPolish(entries) ==
    LET polish_editions == CollectPolish(entries, <<>>)
    IN IF polish_editions = <<>> THEN Absent ELSE Some(polish_editions[1])

\* lines 267-306: the Polish edition, one with a cover preferred
SelectEdition(entries) ==
    LET polish_editions == CollectPolish(entries, <<>>)
        editions_with_covers ==
            SelectSeq(polish_editions, LAMBDA e : EditionTemplates[e.kind].hasCovers)
    IN IF polish_editions = <<>> THEN Absent
       ELSE IF editions_with_covers # <<>> THEN Some(editions_with_covers[1])
       ELSE Some(polish_editions[1])

\* the objects of the edition endpoint
EditionDetails ==
    [title : {Absent, Some(TitleDiuna)}, covers : {<<>>, <<300>>}]

\* lines 308-334: title and cover id after the edition-detail fetch.
\* When the fetch fails the summary of the editions list is used.
ApplyEdition(result, e, detail) ==
    LET t == EditionTemplates[e.kind]
        fetched == detail.shape \in {"hits", "empty"}
        d == IF detail.shape = "hits" THEN detail.hits
             ELSE [title |-> Absent, covers |-> <<>>]
    IN [result EXCEPT
          !.title = IF fetched /\ d.title.has THEN d.title
                    ELSE Some(GetOr(t.title, @.val)),
          !.cover_id = IF fetched /\ d.covers # <<>> THEN Some(d.covers[1])
                       ELSE IF t.hasCovers THEN Some(EditionCover(e)) ELSE @]

IsLetter(c) == InList(c, UpperChars) \/ InList(c, LowerChars)

UpperChar(c) ==
    IF \E i \in 1..Len(LowerChars) : LowerChars[i] = c
    THEN UpperChars[CHOOSE i \in 1..Len(LowerChars) : LowerChars[i] = c]
    ELSE c

\* str.title(): a letter that follows a letter is lowered, any other
\* letter is raised
TitleCase(s) ==
    [i \in 1..Len(s) |->
        IF i > 1 /\ IsLetter(s[i - 1]) THEN LowerChar(s[i]) ELSE UpperChar(s[i])]

\* key.split("/")[-1]
RECURSIVE LastSegment(_)
LastSegment(s) ==
    IF ~InList("/", s) THEN s ELSE LastSegment(Tail(s))

\* line 356: the name derived from an author key
AuthorFallback(key) ==
    TitleCase([i \in 1..Len(LastSegment(key)) |->
                  IF LastSegment(key)[i] = "_" THEN " " ELSE LastSegment(key)[i]])

\* the author references of a work: the key of ref["author"], if any
AuthorRefTemplates == [
    KEYED_OLID |-> Some(<<"/","a","u","t","h","o","r","s","/","O","L","7","9","0","3","4","A">>),
    KEYED_NAME |-> Some(<<"/","a","u","t","h","o","r","s","/","f","r","a","n","k","_","h","e","r","b","e","r","t">>),
    NO_KEY |-> Absent ]

AuthorFallbacks ==
    [k \in DOMAIN AuthorRefTemplates |->
        IF AuthorRefTemplates[k].has
        THEN AuthorFallback(AuthorRefTemplates[k].val) ELSE <<>>]

\* the answers of the author endpoint
AuthorAnswers ==
    {Answer("transport"), Answer("null"),
     Hits([name |-> Absent]), Hits([name |-> Some(FrankHerbert)])}

\* the name of a failed reference left as a placeholder
AuthorNameUnknown(ref, a) ==
    IF a.shape = "hits" THEN GetOr(a.hits.name, UnknownAuthor)
    ELSE UnknownAuthor

\* lines 350-356: the name one keyed reference contributes
AuthorName(ref, a) ==
    IF a.shape = "hits" THEN GetOr(a.hits.name, UnknownAuthor)
    ELSE AuthorFallbacks[ref]

\* lines 343-356: one request per keyed reference, in reference order;
\* answers[i] is the answer to the request for refs[i]
RECURSIVE ResolveAuthors(_, _)
ResolveAuthors(refs, answers) ==
    IF refs = <<>> THEN [names |-> <<>>, reqs |-> <<>>]
    ELSE LET rest == ResolveAuthors(Tail(refs), Tail(answers))
         IN IF AuthorRefTemplates[Head(refs)].has
            THEN [names |-> <<AuthorName(Head(refs), Head(answers))>> \o rest.names,
                  reqs |-> <<Exchange("author", Head(refs), Head(answers))>> \o rest.reqs]
            ELSE rest

\* the cover resolution that tries the ISBN before the cover id
ResolveCoverIsbnFirst(cover_id, isbn, book_id, p) ==
    LET idUrl == CoverUrl("id", ToString(GetOr(cover_id, 0)), "L")
        isbnUrl == CoverUrl("isbn", IF isbn # <<>> THEN isbn[1] ELSE "", "L")
        Check(s, url) == [s EXCEPT !.probes = Append(@, Probe(url, p[Len(@) + 1]))]
        Exists(s) == check_cover_exists(s.probes[Len(s.probes)].answer)
        Use(s, url, via) ==
            IF Exists(s) THEN [s EXCEPT !.cover_url = Some(url), !.cover_urls = Some(via)]
            ELSE s
        ByIsbn(s) == IF isbn # <<>> THEN Use(Check(s, isbnUrl), isbnUrl, "isbn") ELSE s
        ById(s) == IF ~s.cover_url.has /\ cover_id.has
                   THEN Use(Check(s, idUrl), idUrl, "id") ELSE s
    IN ById(ByIsbn([cover_url |-> Absent, cover_urls |-> Absent, probes |-> <<>>]))

\* lines 392-433: the cover of the record.  p holds the answers of the
\* HEAD requests in the order they are sent; probes is the list of the
\* check_cover_exists calls made.
ResolveCover(cover_id, isbn, book_id, p) ==
    LET idUrl == CoverUrl("id", ToString(GetOr(cover_id, 0)), "L")
        isbnUrl == CoverUrl("isbn", IF isbn # <<>> THEN isbn[1] ELSE "", "L")
        olidUrl == CoverUrl("olid", "OL" \o book_id \o "W", "L")
        \* a call of check_cover_exists and the value of the last call
        Check(s, url) == [s EXCEPT !.probes = Append(@, Probe(url, p[Len(@) + 1]))]
        Exists(s) == check_cover_exists(s.probes[Len(s.probes)].answer)
        Use(s, url, via) ==
            IF Exists(s) THEN [s EXCEPT !.cover_url = Some(url), !.cover_urls = Some(via)]
            ELSE s
        \* lines 396-402
        ById == [cover_url |-> IF cover_id.has THEN Some(idUrl) ELSE Absent,
                 cover_urls |-> IF cover_id.has THEN Some("id") ELSE Absent,
                 probes |-> <<>>]
        \* lines 405-416
        CheckId(s) == IF cover_id.has THEN Check(s, idUrl) ELSE s
        ByIsbn(s) == IF (~cover_id.has \/ ~Exists(s)) /\ isbn # <<>>
                     THEN Use(Check(s, isbnUrl), isbnUrl, "isbn") ELSE s
        \* lines 419, 432: not cover_url or not check_cover_exists(cover_url)
        Recheck(s) == IF s.cover_url.has THEN Check(s, s.cover_url.val) ELSE s
        Missing(s) == ~s.cover_url.has \/ ~Exists(s)
        \* lines 419-429
        ByOlid(s) == IF Missing(s) /\ book_id # ""
                     THEN Use(Check(s, olidUrl), olidUrl, "olid") ELSE s
        \* lines 432-433
        Settle(s) == IF Missing(s) THEN [s EXCEPT !.cover_url = Absent] ELSE s
    IN Settle(Recheck(ByOlid(Recheck(ByIsbn(CheckId(ById))))))

\* the work objects of the work endpoint
AuthorRefLists == SeqsUpTo(DOMAIN AuthorRefTemplates, MaxAuthors)
Works ==
    [title : {Absent, Some(TitleDune), Some(TitleSolaris), Some(TitleTsukuruEn)},
     covers : {Absent, Some(<<>>), Some(<<100, 101>>)},
     authors : AuthorRefLists]

\* the work object {}
EmptyWork == [title |-> Absent, covers |-> Absent, authors |-> <<>>]

\* the entries of an editions answer
Editions(kinds) == [i \in 1..Len(kinds) |-> [key |-> i, kind |-> kinds[i]]]

\* lines 363-381: ISBNs of the edition the record is completed from
EditionIsbn(t) ==
    IF t.isbn_13.has THEN t.isbn_13.val
    ELSE IF t.isbn_10.has THEN t.isbn_10.val ELSE <<>>

\* lines 362-390: ISBNs, languages and cover id of the edition the record
\* is completed from
UseEdition(result, e) ==
    LET t == EditionTemplates[e.kind]
    IN [result EXCEPT
          !.isbn = EditionIsbn(t),
          !.languages = IF t.hasLanguages
                        THEN [i \in 1..Len(t.languages) |-> LangCode(t.languages[i])]
                        ELSE @,
          !.cover_id = IF ~@.has /\ t.hasCovers THEN Some(EditionCover(e)) ELSE @]

\* a call that ends before the Polish lookup
NoLookup(r) == [reqs |-> r.reqs, ret |-> r.ret, raised |-> r.raised, lookup |-> FALSE]

\* OpenLibraryService.get_book_details up to the links, lines 237-441.
\* work, editions and detail are the answers of the three endpoints,
\* authors the answers of the author endpoint (one per reference), p the
\* answers of the cover probes.  lookup says whether lines 443-481 follow.
get_book_details(book_id, work, editions, detail, authors, p, build) ==
    LET sent1 == <<Exchange("work", book_id, work)>>
        sent2 == Append(sent1, Exchange("editions", book_id, editions))
        w == IF work.shape = "empty" THEN EmptyWork ELSE work.hits
        entries == IF editions.shape = "hits" THEN editions.hits ELSE <<>>
        \* lines 267-306
        polish_edition == SelectEdition(entries)
        \* lines 252-265
        Start == [result |-> [id |-> book_id,
                              title |-> Some(GetOr(w.title, UnknownTitle)),
                              authors |-> <<>>,
                              cover_id |-> Absent,
                              isbn |-> <<>>,
                              languages |-> <<>>,
                              cover_urls |-> Absent,
                              cover_url |-> Absent],
                  reqs |-> sent2]
        \* lines 308-334
        WithEdition(c) ==
            IF polish_edition.has /\ EditionTemplates[polish_edition.val.kind].hasKey
            THEN [result |-> ApplyEdition(c.result, polish_edition.val, detail),
                  reqs |-> Append(c.reqs,
                                  Exchange("edition", polish_edition.val.key, detail))]
            ELSE c
        \* lines 343-356
        AddAuthors(c, resolved) ==
            [result |-> [c.result EXCEPT !.authors = resolved.names],
             reqs |-> c.reqs \o resolved.reqs]
        WithAuthors(c) == AddAuthors(c, ResolveAuthors(w.authors, authors))
        \* lines 358-360
        WithWorkCover(c) ==
            IF w.covers.has /\ w.covers.val # <<>>
            THEN [c EXCEPT !.result.cover_id = Some(w.covers.val[1])] ELSE c
        \* lines 362-390
        WithEditionData(c) ==
            IF entries = <<>> THEN c
            ELSE [c EXCEPT !.result =
                     UseEdition(@, IF polish_edition.has THEN polish_edition.val
                                   ELSE entries[1])]
        \* lines 392-433
        SetCover(c, cover) ==
            [result |-> [c.result EXCEPT !.cover_url = cover.cover_url,
                                         !.cover_urls = cover.cover_urls],
             reqs |-> c.reqs \o cover.probes]
        WithCover(c) ==
            SetCover(c, ResolveCover(c.result.cover_id, c.result.isbn, book_id, p))
        \* line 444: if not polish_edition and result["authors"]
        Outcome(c) == [reqs |-> c.reqs, ret |-> Rec(c.result), raised |-> FALSE,
                       lookup |-> ~polish_edition.has /\ c.result.authors # <<>>]
    IN CASE work.shape \in {"transport", "http_error"} ->
              NoLookup(NotFound(sent1))
         [] work.shape = "not_json" -> NoLookup(JsonError(sent1, build))
         [] editions.shape \in {"transport", "http_error"} ->
              NoLookup(NotFound(sent2))
         [] editions.shape = "not_json" -> NoLookup(JsonError(sent2, build))
         [] work.shape = "null" \/ editions.shape = "null" ->
              NoLookup(Thrown(sent2))
         [] OTHER ->
              Outcome(WithCover(WithEditionData(WithWorkCover(
                  WithAuthors(WithEdition(Start))))))

---------------------------------------------------------------------------
(* The Polish lookup of get_book_details, openlibrary.py 443-481           *)

\* _find_polish_edition_by_translation, lines 601-668: English title,
\* Polish title, in the order of the dictionary
known_translations == <<
    <<<<"C","o","l","o","r","l","e","s","s"," ","T","s","u","k","u","r","u"," ","T","a","z","a","k","i">>,
      <<"B","e","z","b","a","r","w","n","y"," ","T","s","u","k","u","r","u"," ","T","a","z","a","k","i">>>>,
    <<<<"C","o","l","o","r","l","e","s","s"," ","T","s","u","k","u","r","u"," ","T","a","z","a","k","i"," ","a","n","d"," ","H","i","s"," ","Y","e","a","r","s"," ","o","f"," ","P","i","l","g","r","i","m","a","g","e">>,
      <<"B","e","z","b","a","r","w","n","y"," ","T","s","u","k","u","r","u"," ","T","a","z","a","k","i"," ","i"," ","l","a","t","a"," ","j","e","g","o"," ","p","i","e","l","g","r","z","y","m","s","t","w","a">>>>,
    <<<<"u8272","u5f69","u3092","u6301","u305f","u306a","u3044","u591a","u5d0e","u3064","u304f","u308b">>,
      <<"B","e","z","b","a","r","w","n","y"," ","T","s","u","k","u","r","u"," ","T","a","z","a","k","i">>>>,
    <<<<"u8272","u5f69","u3092","u6301","u305f","u306a","u3044","u591a","u5d0e","u3064","u304f","u308b","u3068","u3001","u5f7c","u306e","u5de1","u793c","u306e","u5e74">>,
      <<"B","e","z","b","a","r","w","n","y"," ","T","s","u","k","u","r","u"," ","T","a","z","a","k","i"," ","i"," ","l","a","t","a"," ","j","e","g","o"," ","p","i","e","l","g","r","z","y","m","s","t","w","a">>>>,
    <<<<"L","o","s"," ","a","u00f1","o","s"," ","d","e"," ","p","e","r","e","g","r","i","n","a","c","i","o'","n"," ","d","e","l"," ","c","h","i","c","o"," ","s","i","n"," ","c","o","l","o","r">>,
      <<"B","e","z","b","a","r","w","n","y"," ","T","s","u","k","u","r","u"," ","T","a","z","a","k","i"," ","i"," ","l","a","t","a"," ","j","e","g","o"," ","p","i","e","l","g","r","z","y","m","s","t","w","a">>>>,
    <<<<"N","o","r","w","e","g","i","a","n"," ","W","o","o","d">>,
      <<"N","o","r","w","e","s","k","i"," ","l","a","s">>>>,
    <<<<"1","Q","8","4">>,
      <<"1","Q","8","4">>>>,
    <<<<"K","a","f","k","a"," ","o","n"," ","t","h","e"," ","S","h","o","r","e">>,
      <<"K","a","f","k","a"," ","n","a","d"," ","m","o","r","z","e","m">>>>,
    <<<<"T","h","e"," ","W","i","n","d","-","U","p"," ","B","i","r","d"," ","C","h","r","o","n","i","c","l","e">>,
      <<"K","r","o","n","i","k","a"," ","p","t","a","k","a"," ","n","a","k","r","e,","c","a","n","a">>>>,
    <<<<"A","f","t","e","r"," ","D","a","r","k">>,
      <<"P","o"," ","z","m","i","e","r","z","c","h","u">>>>,
    <<<<"D","a","n","c","e"," ","D","a","n","c","e"," ","D","a","n","c","e">>,
      <<"T","a","n'","c","z"," ","t","a","n'","c","z"," ","t","a","n'","c","z">>>>,
    <<<<"S","p","u","t","n","i","k"," ","S","w","e","e","t","h","e","a","r","t">>,
      <<"S","p","u","t","n","i","k"," ","S","w","e","e","t","h","e","a","r","t">>>>,
    <<<<"H","a","r","d","-","B","o","i","l","e","d"," ","W","o","n","d","e","r","l","a","n","d">>,
      <<"K","o","n","i","e","c"," ","s'","w","i","a","t","a"," ","i"," ","H","a","r","d","-","b","o","i","l","e","d"," ","W","o","n","d","e","r","l","a","n","d">>>>,
    <<<<"S","o","u","t","h"," ","o","f"," ","t","h","e"," ","B","o","r","d","e","r",","," ","W","e","s","t"," ","o","f"," ","t","h","e"," ","S","u","n">>,
      <<"N","a"," ","p","o","l/","u","d","n","i","e"," ","o","d"," ","g","r","a","n","i","c","y",","," ","n","a"," ","z","a","c","h","o'","d"," ","o","d"," ","s","l/","o","n'","c","a">>>>,
    <<<<"H","e","a","r"," ","t","h","e"," ","W","i","n","d"," ","S","i","n","g">>,
      <<"S","l/","u","c","h","a","j"," ","p","i","e","s'","n","i"," ","w","i","a","t","r","u">>>>,
    <<<<"P","i","n","b","a","l","l",","," ","1","9","7","3">>,
      <<"P","i","n","b","a","l","l",","," ","1","9","7","3">>>>,
    <<<<"A"," ","W","i","l","d"," ","S","h","e","e","p"," ","C","h","a","s","e">>,
      <<"P","r","z","y","g","o","d","a"," ","z"," ","o","w","c","a,">>>>,
    <<<<"T","h","e"," ","S","t","r","a","n","g","e"," ","L","i","b","r","a","r","y">>,
      <<"D","z","i","w","n","a"," ","b","i","b","l","i","o","t","e","k","a">>>>,
    <<<<"M","e","n"," ","W","i","t","h","o","u","t"," ","W","o","m","e","n">>,
      <<"M","e,","z.","c","z","y","z'","n","i"," ","b","e","z"," ","k","o","b","i","e","t">>>>,
    <<<<"K","i","l","l","i","n","g"," ","C","o","m","m","e","n","d","a","t","o","r","e">>,
      <<"Z","a","b","o'","j","s","t","w","o"," ","K","o","m","a","n","d","o","r","a">>>>,
    <<<<"F","i","r","s","t"," ","P","e","r","s","o","n"," ","S","i","n","g","u","l","a","r">>,
      <<"P","i","e","r","w","s","z","a"," ","o","s","o","b","a"," ","l","i","c","z","b","y"," ","p","o","j","e","d","y","n","c","z","e","j">>>>,
    <<<<"W","i","n","d","/","P","i","n","b","a","l","l">>,
      <<"S","l/","u","c","h","a","j"," ","p","i","e","s'","n","i"," ","w","i","a","t","r","u"," ","/"," ","F","l","i","p","p","e","r"," ","r","o","k","u"," ","1","9","7","3">>>>,
    <<<<"T","h","e"," ","H","o","b","b","i","t">>,
      <<"H","o","b","b","i","t">>>>,
    <<<<"L","o","r","d"," ","o","f"," ","t","h","e"," ","R","i","n","g","s">>,
      <<"W","l/","a","d","c","a"," ","P","i","e","r","s'","c","i","e","n","i">>>>,
    <<<<"H","a","r","r","y"," ","P","o","t","t","e","r"," ","a","n","d"," ","t","h","e"," ","P","h","i","l","o","s","o","p","h","e","r","'","s"," ","S","t","o","n","e">>,
      <<"H","a","r","r","y"," ","P","o","t","t","e","r"," ","i"," ","K","a","m","i","e","n'"," ","F","i","l","o","z","o","f","i","c","z","n","y">>>>,
    <<<<"H","a","r","r","y"," ","P","o","t","t","e","r"," ","a","n","d"," ","t","h","e"," ","C","h","a","m","b","e","r"," ","o","f"," ","S","e","c","r","e","t","s">>,
      <<"H","a","r","r","y"," ","P","o","t","t","e","r"," ","i"," ","K","o","m","n","a","t","a"," ","T","a","j","e","m","n","i","c">>>>,
    <<<<"H","a","r","r","y"," ","P","o","t","t","e","r"," ","a","n","d"," ","t","h","e"," ","P","r","i","s","o","n","e","r"," ","o","f"," ","A","z","k","a","b","a","n">>,
      <<"H","a","r","r","y"," ","P","o","t","t","e","r"," ","i"," ","w","i","e,","z","i","e","n'"," ","A","z","k","a","b","a","n","u">>>>,
    <<<<"H","a","r","r","y"," ","P","o","t","t","e","r"," ","a","n","d"," ","t","h","e"," ","G","o","b","l","e","t"," ","o","f"," ","F","i","r","e">>,
      <<"H","a","r","r","y"," ","P","o","t","t","e","r"," ","i"," ","C","z","a","r","a"," ","O","g","n","i","a">>>>,
    <<<<"H","a","r","r","y"," ","P","o","t","t","e","r"," ","a","n","d"," ","t","h","e"," ","O","r","d","e","r"," ","o","f"," ","t","h","e"," ","P","h","o","e","n","i","x">>,
      <<"H","a","r","r","y"," ","P","o","t","t","e","r"," ","i"," ","Z","a","k","o","n"," ","F","e","n","i","k","s","a">>>>,
    <<<<"H","a","r","r","y"," ","P","o","t","t","e","r"," ","a","n","d"," ","t","h","e"," ","H","a","l","f","-","B","l","o","o","d"," ","P","r","i","n","c","e">>,
      <<"H","a","r","r","y"," ","P","o","t","t","e","r"," ","i"," ","K","s","i","a,","z.","e,"," ","P","o'","l/","k","r","w","i">>>>,
    <<<<"H","a","r","r","y"," ","P","o","t","t","e","r"," ","a","n","d"," ","t","h","e"," ","D","e","a","t","h","l","y"," ","H","a","l","l","o","w","s">>,
      <<"H","a","r","r","y"," ","P","o","t","t","e","r"," ","i"," ","I","n","s","y","g","n","i","a"," ","S'","m","i","e","r","c","i">>>>,
    <<<<"T","h","e"," ","W","i","t","c","h","e","r">>,
      <<"W","i","e","d","z'","m","i","n">>>>,
    <<<<"T","h","e"," ","L","a","s","t"," ","W","i","s","h">>,
      <<"O","s","t","a","t","n","i","e"," ","z.","y","c","z","e","n","i","e">>>>,
    <<<<"S","w","o","r","d"," ","o","f"," ","D","e","s","t","i","n","y">>,
      <<"M","i","e","c","z"," ","p","r","z","e","z","n","a","c","z","e","n","i","a">>>>,
    <<<<"B","l","o","o","d"," ","o","f"," ","E","l","v","e","s">>,
      <<"K","r","e","w"," ","e","l","f","o'","w">>>>,
    <<<<"T","i","m","e"," ","o","f"," ","C","o","n","t","e","m","p","t">>,
      <<"C","z","a","s"," ","p","o","g","a","r","d","y">>>>,
    <<<<"B","a","p","t","i","s","m"," ","o","f"," ","F","i","r","e">>,
      <<"C","h","r","z","e","s","t"," ","o","g","n","i","a">>>>,
    <<<<"T","h","e"," ","T","o","w","e","r"," ","o","f"," ","t","h","e"," ","S","w","a","l","l","o","w">>,
      <<"W","i","e","z.","a"," ","J","a","s","k","o'","l/","k","i">>>>,
    <<<<"T","h","e"," ","L","a","d","y"," ","o","f"," ","t","h","e"," ","L","a","k","e">>,
      <<"P","a","n","i"," ","J","e","z","i","o","r","a">>>>,
    <<<<"S","e","a","s","o","n"," ","o","f"," ","S","t","o","r","m","s">>,
      <<"S","e","z","o","n"," ","b","u","r","z">>>>,
    <<<<"A"," ","G","a","m","e"," ","o","f"," ","T","h","r","o","n","e","s">>,
      <<"G","r","a"," ","o"," ","t","r","o","n">>>>,
    <<<<"A"," ","C","l","a","s","h"," ","o","f"," ","K","i","n","g","s">>,
      <<"S","t","a","r","c","i","e"," ","k","r","o'","l","o'","w">>>>,
    <<<<"A"," ","S","t","o","r","m"," ","o","f"," ","S","w","o","r","d","s">>,
      <<"N","a","w","a","l/","n","i","c","a"," ","m","i","e","c","z","y">>>>,
    <<<<"A"," ","F","e","a","s","t"," ","f","o","r"," ","C","r","o","w","s">>,
      <<"U","c","z","t","a"," ","d","l","a"," ","w","r","o","n">>>>,
    <<<<"A"," ","D","a","n","c","e"," ","w","i","t","h"," ","D","r","a","g","o","n","s">>,
      <<"T","a","n","i","e","c"," ","z","e"," ","s","m","o","k","a","m","i">>>>,
    <<<<"T","h","e"," ","H","u","n","g","e","r"," ","G","a","m","e","s">>,
      <<"I","g","r","z","y","s","k","a"," ","s'","m","i","e","r","c","i">>>>,
    <<<<"C","a","t","c","h","i","n","g"," ","F","i","r","e">>,
      <<"W"," ","p","i","e","r","s'","c","i","e","n","i","u"," ","o","g","n","i","a">>>>,
    <<<<"M","o","c","k","i","n","g","j","a","y">>,
      <<"K","o","s","o","g","l/","o","s">>>>,
    <<<<"D","u","n","e">>,
      <<"D","i","u","n","a">>>>,
    <<<<"1","9","8","4">>,
      <<"R","o","k"," ","1","9","8","4">>>>,
    <<<<"A","n","i","m","a","l"," ","F","a","r","m">>,
      <<"F","o","l","w","a","r","k"," ","z","w","i","e","r","z","e,","c","y">>>>,
    <<<<"P","r","i","d","e"," ","a","n","d"," ","P","r","e","j","u","d","i","c","e">>,
      <<"D","u","m","a"," ","i"," ","u","p","r","z","e","d","z","e","n","i","e">>>>,
    <<<<"T","o"," ","K","i","l","l"," ","a"," ","M","o","c","k","i","n","g","b","i","r","d">>,
      <<"Z","a","b","i","c'"," ","d","r","o","z","d","a">>>>,
    <<<<"T","h","e"," ","G","r","e","a","t"," ","G","a","t","s","b","y">>,
      <<"W","i","e","l","k","i"," ","G","a","t","s","b","y">>>>,
    <<<<"T","h","e"," ","C","a","t","c","h","e","r"," ","i","n"," ","t","h","e"," ","R","y","e">>,
      <<"B","u","l/","h","a","c","z","o","w">>>>,
    <<<<"B","r","a","v","e"," ","N","e","w"," ","W","o","r","l","d">>,
      <<"N","o","w","y"," ","w","s","p","a","n","i","a","l/","y"," ","s'","w","i","a","t">>>>,
    <<<<"T","h","e"," ","A","l","c","h","e","m","i","s","t">>,
      <<"A","l","c","h","e","m","i","k">>>>,
    <<<<"T","h","e"," ","L","i","t","t","l","e"," ","P","r","i","n","c","e">>,
      <<"M","a","l/","y"," ","K","s","i","a,","z.","e,">>>>,
    <<<<"C","r","i","m","e"," ","a","n","d"," ","P","u","n","i","s","h","m","e","n","t">>,
      <<"Z","b","r","o","d","n","i","a"," ","i"," ","k","a","r","a">>>>,
    <<<<"W","a","r"," ","a","n","d"," ","P","e","a","c","e">>,
      <<"W","o","j","n","a"," ","i"," ","p","o","k","o'","j">>>>,
    <<<<"A","n","n","a"," ","K","a","r","e","n","i","n","a">>,
      <<"A","n","n","a"," ","K","a","r","e","n","i","n","a">>>>,
    <<<<"D","o","n"," ","Q","u","i","x","o","t","e">>,
      <<"D","o","n"," ","K","i","c","h","o","t">>>>,
    <<<<"O","n","e"," ","H","u","n","d","r","e","d"," ","Y","e","a","r","s"," ","o","f"," ","S","o","l","i","t","u","d","e">>,
      <<"S","t","o"," ","l","a","t"," ","s","a","m","o","t","n","o","s'","c","i">>>>,
    <<<<"L","o","v","e"," ","i","n"," ","t","h","e"," ","T","i","m","e"," ","o","f"," ","C","h","o","l","e","r","a">>,
      <<"M","i","l/","o","s'","c'"," ","w"," ","c","z","a","s","a","c","h"," ","z","a","r","a","z","y">>>> >>

\* lines 671-675: the Polish title of the first entry that contains the
\* title or is contained in it, letter case ignored
TranslationOf(title) ==
    LET hit(i) == \/ Contains(Lower(title), Lower(known_translations[i][1]))
                  \/ Contains(Lower(known_translations[i][1]), Lower(title))
    IN IF \E i \in 1..Len(known_translations) : hit(i)
       THEN Some(known_translations[
                CHOOSE i \in 1..Len(known_translations) :
                    hit(i) /\ \A j \in 1..(i - 1) : ~hit(j)][2])
       ELSE Absent

\* the work titles of the model and "", with their translations (computed once)
OriginalTitles == {<<>>, TitleDune, TitleSolaris, TitleTsukuruEn}
Translations == [t \in OriginalTitles |-> TranslationOf(t)]

\* the docs of the lookup's search answers
LookupKinds == {"PL_LANG_COVER", "PL_TSUKURU", "PL_TITLE_NOCOVER", "OTHER_COVER"}
LookupAnswers ==
    {Answer("transport"), Answer("empty")} \cup {Hits(Docs(<<k>>)) : k \in LookupKinds}

\* _process_search_result (lines 170-225) as the lookup uses it: the
\* result with its cover URL spelled out, and the probes it sent
LookupHit(book) ==
    LET r == ProcessedKinds[book.kind]
    IN [id |-> book.key,
        title |-> r.title,
        cover_url |-> IF r.cover_url = "none" THEN Absent
                      ELSE Some(DocCoverUrl(book, r.cover_url)),
        cover_urls |-> IF r.cover_url = "none" THEN Absent ELSE Some(r.cover_url),
        cover_id |-> IF r.cover_url = "id" THEN Some(DocCoverId(book)) ELSE Absent]

LookupProbes(book) ==
    [i \in 1..Len(ProbedKinds[book.kind]) |->
        Probe(DocCoverUrl(book, ProbedKinds[book.kind][i].url),
              ProbedKinds[book.kind][i].answer)]

Found(sent, book) == [reqs |-> sent \o LookupProbes(book), found |-> Some(LookupHit(book))]
NothingFound(sent) == [reqs |-> sent, found |-> Absent]

\* the first doc of the list whose template is one of kinds, if any
FirstDoc(docs, kinds) ==
    IF \E i \in 1..Len(docs) : docs[i].kind \in kinds
    THEN Some(docs[CHOOSE i \in 1..Len(docs) :
                      /\ docs[i].kind \in kinds
                      /\ \A j \in 1..(i - 1) : docs[j].kind \notin kinds])
    ELSE Absent

\* lines 567-569, 700-702: "language" in book and "pol" in book["language"]
HasPolishLanguage(t) == t.hasLanguage /\ InList("pol", t.language)

\* lines 741-743: the searched title is part of the doc's title
MatchesTsukuruFull(t) ==
    t.hasTitle /\ Contains(Lower(t.title), Lower(BezbarwnyTsukuruFull))

\* lines 768-770
MatchesTsukuru(t) == t.hasTitle /\ Contains(t.title, BezbarwnyTsukuru)

\* per template, computed once
PolishLanguageKinds == {k \in DocKinds : HasPolishLanguage(DocTemplates[k])}
TsukuruFullKinds == {k \in DocKinds : MatchesTsukuruFull(DocTemplates[k])}
TsukuruKinds == {k \in DocKinds : MatchesTsukuru(DocTemplates[k])}

\* _find_polish_edition_by_translation, lines 588-708
find_polish_edition_by_translation(title, author, a2) ==
    LET polish_title == Translations[title]
        sent == <<Exchange("search", [q |-> polish_title.val, language |-> "pol",
                                       author |-> author], a2)>>
        first == FirstDoc(a2.hits, PolishLanguageKinds)
    IN IF ~polish_title.has THEN NothingFound(<<>>)
       ELSE IF a2.shape = "hits" /\ first.has THEN Found(sent, first.val)
       ELSE NothingFound(sent)

\* find_polish_edition, lines 530-586.  An answer without docs leaves
\* polish_books unbound, and the NameError ends the lookup.
find_polish_edition(title, author, a1, a2) ==
    LET sent == <<Exchange("search", [q |-> title, language |-> "pol",
                                       author |-> author], a1)>>
        first == FirstDoc(a1.hits, PolishLanguageKinds)
        translated == find_polish_edition_by_translation(title, author, a2)
    IN IF a1.shape # "hits" THEN NothingFound(sent)
       ELSE IF first.has THEN Found(sent, first.val)
       ELSE [translated EXCEPT !.reqs = sent \o translated.reqs]

\* _direct_search_polish_book, lines 710-780
direct_search_polish_book(title, author, d1, d2) ==
    LET sent1 == <<Exchange("search", [title |-> title, language |-> "pol",
                                        author |-> author], d1)>>
        sent2 == Append(sent1, Exchange("search", [q |-> title, language |-> "pol"], d2))
        exact == FirstDoc(d1.hits, TsukuruFullKinds)
        best == FirstDoc(d2.hits, TsukuruKinds)
    IN CASE d1.shape = "hits" ->
              Found(sent1, IF exact.has THEN exact.val ELSE d1.hits[1])
         [] d1.shape = "empty" ->
              IF d2.shape = "hits" /\ best.has
              THEN Found(sent2, best.val) ELSE NothingFound(sent2)
         [] OTHER -> NothingFound(sent1)

\* lines 452-461, 470-479: the title and the cover of a found Polish book
UsePolishBook(result, book) ==
    IF book.cover_url.has
    THEN [result EXCEPT !.title = Some(book.title),
                        !.cover_url = book.cover_url,
                        !.cover_urls = book.cover_urls,
                        !.cover_id = IF book.cover_urls = Some("id")
                                     THEN book.cover_id ELSE @]
    ELSE [result EXCEPT !.title = Some(book.title)]

\* get_book_details, lines 443-483: the lookup that follows when no Polish
\* edition was selected and the record has an author
polish_lookup(result, original_title, d1, d2, a1, a2) ==
    LET author == result.authors[1]
        tsukuru == \/ Contains(original_title, TsukuruTazaki)
                   \/ Contains(original_title, TsukuruKanji)
        direct == direct_search_polish_book(BezbarwnyTsukuruFull,
                      <<"M","u","r","a","k","a","m","i">>, d1, d2)
        looked == find_polish_edition(original_title, author, a1, a2)
    IN IF tsukuru /\ direct.found.has
       THEN [reqs |-> direct.reqs, ret |-> Rec(UsePolishBook(result, direct.found.val))]
       ELSE [reqs |-> (IF tsukuru THEN direct.reqs ELSE <<>>) \o looked.reqs,
             ret |-> Rec(IF looked.found.has
                         THEN UsePolishBook(result, looked.found.val) ELSE result)]

---------------------------------------------------------------------------
(* The hydration specification: one detail call per visit of the menu      *)

\* the HEAD answers one cover resolution draws from
RunProbeAnswers == {"200_large", "timeout"}
\* the most HEAD requests one cover resolution sends (lines 405-432)
MaxProbes == 5
ProbeSeqs == [1..MaxProbes -> RunProbeAnswers]
StableProbeSeqs == {[i \in 1..MaxProbes |-> a] : a \in RunProbeAnswers}

\* answers of the edition endpoint
DetailAnswers ==
    {Answer("transport"),
     Hits([title |-> Some(TitleDiuna), covers |-> <<300>>]),
     Hits([title |-> Absent, covers |-> <<>>])}

\* answers of the work and the editions endpoint that end the call
BrokenAnswers == {Answer(s) : s \in {"transport", "http_error", "not_json", "null"}}

NamedAuthor == Hits([name |-> Some(FrankHerbert)])
PlainWork == [title |-> Some(TitleDune), covers |-> Absent, authors |-> <<"KEYED_NAME">>]
PlainEditions == Hits(Editions(<<"EN_COVER">>))

\* the answers of the four searches of the lookup (direct, direct widened,
\* find_polish_edition, by translation); Unused where no request is sent
NoLookups == <<Unused, Unused, Unused, Unused>>

IsTsukuruTitle(title) == Contains(title, TsukuruTazaki) \/ Contains(title, TsukuruKanji)

\* the answer tuples in which exactly the requests the lookup sends are answered
Lookups(title) ==
    LET any == LookupAnswers \cup {Unused}
        directFound(d1, d2) ==
            \/ d1.shape = "hits"
            \/ d1.shape = "empty" /\ d2.shape = "hits" /\ FirstDoc(d2.hits, TsukuruKinds).has
        translate(a1) ==
            /\ a1.shape = "hits"
            /\ ~FirstDoc(a1.hits, PolishLanguageKinds).has
            /\ Translations[title].has
    IN {l \in any \X any \X any \X any :
          /\ (l[1] # Unused) = IsTsukuruTitle(title)
          /\ (l[2] # Unused) = (l[1].shape = "empty")
          /\ (l[3] # Unused) = ~(IsTsukuruTitle(title) /\ directFound(l[1], l[2]))
          /\ (l[4] # Unused) = (l[3] # Unused /\ translate(l[3]))}

\* the lookup whose searches all fail
FailedLookup(title) ==
    <<IF IsTsukuruTitle(title) THEN Answer("transport") ELSE Unused, Unused,
      Answer("transport"), Unused>>

\* the title the lookup searches for (line 446)
OriginalTitle(work) ==
    IF work.shape = "hits" THEN GetOr(work.hits.title, <<>>) ELSE <<>>

\* one call of get_book_details that gets the given answers
BookCall(book_id, work, editions, detail, authors, p, lookup) ==
    \E build \in BuildsFor({work}) \cup BuildsFor({editions}) :
      \E r \in {get_book_details(book_id, work, editions, detail, authors, p, build)} :
         /\ op' = IF r.lookup THEN "get_book_details.lookup" ELSE "get_book_details"
         /\ args' = [book_id |-> book_id, build |-> build,
                     original_title |-> OriginalTitle(work),
                     lookup |-> IF r.lookup THEN lookup ELSE NoLookups]
         /\ reqs' = r.reqs
         /\ ret' = r.ret
         /\ raised' = r.raised
         /\ UNCHANGED store

GetBookDetails ==
    /\ op = "menu"
    /\ \* a broken work or editions answer
       \/ \E w \in BrokenAnswers :
            BookCall("OL45883W", w, PlainEditions, Unused, <<>>, <<>>, NoLookups)
       \/ \E w \in {Hits(PlainWork), Answer("empty"), Answer("null")},
             e \in BrokenAnswers \cup {Answer("empty")}, p \in StableProbeSeqs :
            BookCall("OL45883W", w, e, Unused, <<NamedAuthor>>, p, FailedLookup(TitleDune))
       \* every reference list with every answer of the author endpoint
       \/ \E refs \in AuthorRefLists, p \in StableProbeSeqs :
            \E answers \in [1..Len(refs) -> AuthorAnswers] :
              BookCall("OL45883W", Hits([PlainWork EXCEPT !.authors = refs]), PlainEditions,
                       Unused, answers, p, FailedLookup(TitleDune))
       \* every editions list with every answer of the edition endpoint and
       \* every sequence of probe answers
       \/ \E covers \in {Absent, Some(<<100, 101>>)},
             kinds \in SeqsUpTo(EditionKinds, MaxEditions),
             detail \in DetailAnswers, p \in ProbeSeqs :
            BookCall("OL45883W",
                     Hits([PlainWork EXCEPT !.covers = covers, !.authors = <<>>]),
                     Hits(Editions(kinds)), detail, <<>>, p, NoLookups)
       \* every title and cover list of the work, with and without a work id
       \/ \E book_id \in {"OL45883W", ""},
             title \in {Absent, Some(TitleDune), Some(TitleTsukuruEn)},
             covers \in {Absent, Some(<<>>), Some(<<100, 101>>)},
             kinds \in {<<>>, <<"EN_COVER">>, <<"EN_BARE">>, <<"PL_LANG_COVER">>},
             detail \in DetailAnswers,
             author \in {NamedAuthor, Answer("transport")},
             p \in ProbeSeqs :
            BookCall(book_id,
                     Hits([title |-> title, covers |-> covers, authors |-> <<"KEYED_NAME">>]),
                     Hits(Editions(kinds)), detail, <<author>>, p,
                     FailedLookup(GetOr(title, <<>>)))
       \* every answer of the lookup's searches
       \/ \E title \in {Absent, Some(TitleDune), Some(TitleSolaris), Some(TitleTsukuruEn)},
             e \in {PlainEditions, Answer("empty")}, p \in StableProbeSeqs :
            \E l \in Lookups(GetOr(title, <<>>)) :
              BookCall("OL45883W", Hits([PlainWork EXCEPT !.title = title]), e, Unused,
                       <<NamedAuthor>>, p, l)

\* get_book_details resumed at the Polish lookup, lines 443-483
FindPolishEdition ==
    /\ op = "get_book_details.lookup"
    /\ \E r \in {polish_lookup(ret.val, args.original_title, args.lookup[1],
                               args.lookup[2], args.lookup[3], args.lookup[4])} :
          /\ op' = "get_book_details"
          /\ reqs' = reqs \o r.reqs
          /\ ret' = r.ret
          /\ UNCHANGED <<args, raised, store>>

GetAnimeFullDetails ==
    /\ op = "menu"
    /\ \E a \in NoDetailAnswers \cup {Answer("no_key")} \cup {Hits(d) : d \in AnimeRecords} :
        \E build \in BuildsFor({a}) :
          Finish("get_anime_full_details", [id |-> 1, a1 |-> a, build |-> build],
                 get_anime_full_details(1, a, build))

GetBookFullDetails ==
    /\ op = "menu"
    /\ \E a \in NoDetailAnswers \cup {Hits(v) : v \in Volumes} :
        \E build \in BuildsFor({a}) :
          Finish("get_book_full_details", [id |-> "B1hSG45JCX4C", a1 |-> a, build |-> build],
                 get_book_full_details("B1hSG45JCX4C", a, build))

GetVinylDetails ==
    /\ op = "menu"
    /\ \E a \in NoDetailAnswers \cup {Hits(d) : d \in Releases} :
        \E build \in BuildsFor({a}) :
          Finish("get_vinyl_details", [id |-> "249504", a1 |-> a, build |-> build],
                 get_vinyl_details("249504", a, build))

CheckCoverExists ==
    /\ op = "menu"
    /\ \E url \in {CoverUrl("id", "100", "L")}, answer \in ProbeAnswers :
          Finish("check_cover_exists", [url |-> url, a1 |-> answer],
                 [reqs |-> <<Probe(url, answer)>>,
                  ret |-> Bool(check_cover_exists(answer)), raised |-> FALSE])

NextHydrate ==
    \/ Menu
    \/ GetBookDetails
    \/ FindPolishEdition
    \/ GetAnimeFullDetails
    \/ GetBookFullDetails
    \/ GetVinylDetails
    \/ CheckCoverExists

HydrateSpec == Init /\ [][NextHydrate]_vars


---------------------------------------------------------------------------
(* Properties of the hydration operations                                  *)

IsBookHydration == op \in {"get_book_details", "get_book_details.lookup"}
IsPlainHydration ==
    op \in {"get_anime_full_details", "get_book_full_details", "get_vinyl_details"}

\* a fetch that got no answer or a status that is not 2xx
FetchFailed(a) == a.shape \in {"transport", "http_error"}

\* the place of the first work or editions fetch that failed, 0 if none did
FailedFetch ==
    IF FetchFailed(reqs[1].answer) THEN 1
    ELSE IF Len(reqs) >= 2 /\ FetchFailed(reqs[2].answer) THEN 2
    ELSE 0

\* C5: when the primary detail fetch of a hydration fails (no answer, or a
\* status that is not 2xx), the call returns None, raises nothing and sends no
\* further request.  The primary fetches of get_book_details are the work
\* and the editions fetch; the other hydrations have one detail fetch.
C5_PrimaryFailureIsNone ==
    /\ (IsPlainHydration /\ FetchFailed(args.a1)) =>
          (ret = None /\ ~raised /\ Len(reqs) = 1)
    /\ (IsBookHydration /\ FailedFetch > 0) =>
          (ret = None /\ ~raised /\ Len(reqs) = FailedFetch)

\* the editions fetch fails after the work was fetched
C5_Witness ==
    /\ op = "get_book_details"
    /\ FailedFetch = 2
    /\ reqs[1].answer.shape = "hits"
    /\ ret = None

\* the titles that stand for a missing one
Placeholders == {<<>>, UnknownTitle}

\* C6: a hydration that returns a record returns one with a real title,
\* neither missing, nor empty, nor a placeholder.
C6_RecordHasTitle ==
    ((IsBookHydration \/ IsPlainHydration) /\ ret.tag = "record") =>
        (ret.val.title.has /\ ret.val.title.val \notin Placeholders)

\* the editions fetch of a get_book_details call that listed editions
ListedEditions ==
    IF IsBookHydration /\ Len(reqs) >= 2 /\ reqs[2].type = "editions"
       /\ reqs[2].answer.shape = "hits"
    THEN reqs[2].answer.hits ELSE <<>>

\* the edition-detail fetches of the call
EditionFetches == SelectSeq(reqs, LAMBDA r : r.type = "edition")

\* an edition whose declared languages hold the locale
DeclaresLocale(e) ==
    LET t == EditionTemplates[e.kind]
    IN t.hasLanguages /\ \E i \in 1..Len(t.languages) : IsPolKey(t.languages[i])

\* the edition the selection rule names: of the editions that declare the
\* locale the first in list order with a cover, else the first in list order
RuleEdition(entries) ==
    LET qualifying == SelectSeq(entries, DeclaresLocale)
        covered == SelectSeq(qualifying, LAMBDA e : EditionTemplates[e.kind].hasCovers)
    IN IF qualifying = <<>> THEN Absent
       ELSE IF covered # <<>> THEN Some(covered[1]) ELSE Some(qualifying[1])

\* C15: the edition get_book_details selects (the one whose details it
\* fetches) declares the locale among its languages, and is the first such
\* edition in list order that has a cover, or the first such edition in list
\* order when none of them has a cover.
C15_EditionSelection ==
    \A i \in 1..Len(EditionFetches) :
        /\ RuleEdition(ListedEditions).has
        /\ EditionFetches[i].target = RuleEdition(ListedEditions).val.key

\* C16: when the edition-detail fetch of the selected edition fails,
\* get_book_details still returns a record and raises nothing, and the
\* record's title and cover id are those the editions list gives for that
\* edition.
C16_DegradesToSummary ==
    \A i \in 1..Len(EditionFetches) :
        EditionFetches[i].answer.shape \notin {"hits", "empty"} =>
            LET e == ListedEditions[EditionFetches[i].target]
                t == EditionTemplates[e.kind]
            IN /\ ret.tag = "record" /\ ~raised
               /\ t.title.has => ret.val.title = t.title
               /\ t.hasCovers => ret.val.cover_id = Some(EditionCover(e))

\* the title half of C16 taken alone
C16_TitleFromSummary ==
    \A i \in 1..Len(EditionFetches) :
        EditionFetches[i].answer.shape \notin {"hits", "empty"} =>
            LET e == ListedEditions[EditionFetches[i].target]
                t == EditionTemplates[e.kind]
            IN /\ ret.tag = "record" /\ ~raised
               /\ t.title.has => ret.val.title = t.title

\* the author references of the work a get_book_details call fetched
WorkAuthorRefs ==
    IF IsBookHydration /\ reqs # <<>> /\ reqs[1].type = "work"
       /\ reqs[1].answer.shape = "hits"
    THEN reqs[1].answer.hits.authors ELSE <<>>

\* the references that carry a key, in reference order
KeyedRefs == SelectSeq(WorkAuthorRefs, LAMBDA ref : AuthorRefTemplates[ref].has)

\* the requests to the author endpoint, in the order sent
AuthorFetches == SelectSeq(reqs, LAMBDA r : r.type = "author")

\* C17: a get_book_details call that returns a record sent one author
\* request per keyed reference, in reference order, and whichever of them
\* failed, the authors list has one non-empty entry per keyed reference in
\* that order; the entry of a failed reference is the last path segment of
\* its key, underscores turned to spaces, title-cased.
C17_AuthorsResolved ==
    (IsBookHydration /\ ret.tag = "record") =>
        /\ Len(AuthorFetches) = Len(KeyedRefs)
        /\ Len(ret.val.authors) = Len(KeyedRefs)
        /\ \A i \in 1..Len(KeyedRefs) :
             /\ AuthorFetches[i].target = KeyedRefs[i]
             /\ ret.val.authors[i] # <<>>
             /\ AuthorFetches[i].answer.shape # "hits" =>
                   ret.val.authors[i] = AuthorFallback(AuthorRefTemplates[KeyedRefs[i]].val)

\* the first of two author requests fails, the second is answered
C17_Witness ==
    /\ IsBookHydration /\ ret.tag = "record"
    /\ Len(KeyedRefs) = 2
    /\ AuthorFetches[1].answer.shape = "transport"
    /\ AuthorFetches[2].answer.shape = "hits"
    /\ KeyedRefs[1] = "KEYED_NAME"
    /\ ret.val.authors = <<FrankHerbert, FrankHerbert>>
    /\ AuthorFallback(AuthorRefTemplates["KEYED_OLID"].val) = <<"O","l","7","9","0","3","4","A">>

\* the relations of the record a get_anime_full_details call was answered with
AnsweredRelations ==
    IF op = "get_anime_full_details" /\ args.a1.shape = "hits"
       /\ args.a1.hits.relations.has
    THEN args.a1.hits.relations.val ELSE <<>>

\* C18: the record get_anime_full_details returns has seasons equal to 1
\* plus the number of relations that are a Sequel or a Prequel; that is 1
\* when the answer has no relations or none of these kinds, and relations of
\* another kind do not count.
C18_SeasonsCount ==
    (op = "get_anime_full_details" /\ ret.tag = "record") =>
        ret.val.seasons =
            1 + Cardinality({i \in 1..Len(AnsweredRelations) :
                                AnsweredRelations[i] \in {"Sequel", "Prequel"}})

\* a sequel and a side story: two seasons
C18_Witness ==
    /\ op = "get_anime_full_details" /\ ret.tag = "record"
    /\ AnsweredRelations = <<"Sequel", "Side story">>
    /\ ret.val.seasons = 2

\* a sequel and a prequel: three seasons
C18_WitnessBoth ==
    /\ op = "get_anime_full_details" /\ ret.tag = "record"
    /\ AnsweredRelations = <<"Prequel", "Sequel">>
    /\ ret.val.seasons = 3

\* the state after the cover resolution of get_book_details (line 433)
CoverResolved ==
    \/ op = "get_book_details.lookup"
    \/ op = "get_book_details" /\ ret.tag = "record" /\ args.lookup = NoLookups

\* the check_cover_exists calls of the resolution, in the order made
CoverProbes == SelectSeq(reqs, LAMBDA r : r.type = "probe")

\* the candidates of the record, in the order cover id, ISBN, OLID
Candidates ==
    (IF ret.val.cover_id.has
     THEN <<CoverUrl("id", ToString(ret.val.cover_id.val), "L")>> ELSE <<>>)
    \o (IF ret.val.isbn # <<>>
        THEN <<CoverUrl("isbn", ret.val.isbn[1], "L")>> ELSE <<>>)
    \o (IF ret.val.id # ""
        THEN <<CoverUrl("olid", "OL" \o ret.val.id \o "W", "L")>> ELSE <<>>)

Probed(url) == \E i \in 1..Len(CoverProbes) : CoverProbes[i].url = url
Passed(url) ==
    \E i \in 1..Len(CoverProbes) :
        CoverProbes[i].url = url /\ check_cover_exists(CoverProbes[i].answer)
Rejected(url) == Probed(url) /\ ~Passed(url)

\* every URL got the same outcome each time it was probed
StableProbes ==
    \A i, j \in 1..Len(CoverProbes) :
        CoverProbes[i].url = CoverProbes[j].url =>
            check_cover_exists(CoverProbes[i].answer)
                = check_cover_exists(CoverProbes[j].answer)

\* the place of the first probe of a URL
FirstProbe(url) ==
    CHOOSE i \in 1..Len(CoverProbes) :
        CoverProbes[i].url = url /\ \A j \in 1..(i - 1) : CoverProbes[j].url # url

C20_NoProbeAfterAccept ==
    CoverResolved =>
        \A i \in 1..Len(CoverProbes) :
            check_cover_exists(CoverProbes[i].answer) => i = Len(CoverProbes)

\* C21: in the cover resolution of get_book_details no URL is probed more
\* than once, and a candidate whose probe timed out is rejected: it is not
\* the record's cover.
C21_NoRetry ==
    CoverResolved =>
        /\ \A i, j \in 1..Len(CoverProbes) :
              i # j => CoverProbes[i].url # CoverProbes[j].url
        /\ \A i \in 1..Len(CoverProbes) :
              CoverProbes[i].answer = "timeout" =>
                  ret.val.cover_url # Some(CoverProbes[i].url)

\* the second half of C21 taken alone
C21_TimeoutRejects ==
    CoverResolved =>
        \A i \in 1..Len(CoverProbes) :
            CoverProbes[i].answer = "timeout" =>
                ret.val.cover_url # Some(CoverProbes[i].url)

C7_WitnessNull ==
    /\ CoverResolved /\ StableProbes
    /\ Len(Candidates) = 3
    /\ ret.val.cover_url = Absent

---------------------------------------------------------------------------
(* The Notion store service, app/services/notion.py                        *)

\* most pages the database holds
MaxPages == 1

\* Python values whose type the service tests with isinstance
Str(s) == [type |-> "str", val |-> s]
Items(l) == [type |-> "list", val |-> l]
Num(n) == [type |-> "int", val |-> n]

\* bool(x) of an optional text or list, of an optional number, and of an
\* optional value of one of the three types above
Filled(x) == x.has /\ x.val # <<>>
NonZero(x) == x.has /\ x.val # 0
Truthy(x) == x.has /\ IF x.val.type = "int" THEN x.val.val # 0 ELSE x.val.val # <<>>

\* s.split(c)
RECURSIVE SplitOn(_, _)
SplitOn(s, c) ==
    IF ~InList(c, s) THEN <<s>>
    ELSE <<SubSeq(s, 1, IndexOf(s, <<c>>) - 1)>>
         \o SplitOn(SubSeq(s, IndexOf(s, <<c>>) + 1, Len(s)), c)

\* int(s) of a text made of digits; any other text is a ValueError here
Digits == <<"0","1","2","3","4","5","6","7","8","9">>
IsDigits(s) == s # <<>> /\ \A i \in 1..Len(s) : InList(s[i], Digits)
RECURSIVE IntOf(_)
IntOf(s) ==
    IF s = <<>> THEN 0
    ELSE 10 * IntOf(SubSeq(s, 1, Len(s) - 1))
         + (CHOOSE d \in 0..9 : Digits[d + 1] = s[Len(s)])

\* "".join(parts)
RECURSIVE Join(_)
Join(parts) == IF parts = <<>> THEN <<>> ELSE Head(parts) \o Join(Tail(parts))

\* datetime.fromtimestamp(timestamp).year, for a process whose local time is
\* utc_offset seconds east of UTC and a timestamp that is not negative
IsLeap(y) == (y % 4 = 0 /\ y % 100 # 0) \/ y % 400 = 0
DaysIn(y) == IF IsLeap(y) THEN 366 ELSE 365
RECURSIVE YearFrom(_, _)
YearFrom(days, y) == IF days < DaysIn(y) THEN y ELSE YearFrom(days - DaysIn(y), y + 1)
YearOf(timestamp, utc_offset) == YearFrom((timestamp + utc_offset) \div 86400, 1970)

\* A property of a page: its type and the value under that type.  The
\* value of a title or rich_text is the list of the contents of its text
\* parts, the value of a select its name, the value of a multi_select the
\* list of its names.
Prop(type, value) == [type |-> type, value |-> value]
\* properties[name] = prop under a condition
Given(cond, name, prop) == IF cond THEN name :> prop ELSE <<>>

NoStatus == <<"n","o"," ","s","t","a","t","u","s">>

\* the Status property of a sentinel compared as it is written
StatusPropertyExact(status) ==
    IF status = <<"N","o"," ","S","t","a","t","u","s">> THEN Prop("multi_select", <<>>)
    ELSE Prop("multi_select", <<status>>)

\* lines 282-295, 523-536, 634-647, 838-851
StatusProperty(status) ==
    IF Lower(status) = NoStatus THEN Prop("multi_select", <<>>)
    ELSE Prop("multi_select", <<status>>)

\* lines 651-660
StudioProperty(studio) ==
    Prop("multi_select", IF studio.type = "list" THEN studio.val ELSE <<studio.val>>)

\* lines 677-693, for an airing status that is a string
AiringNames == {<<"a","i","r","i","n","g">>, <<"c","u","r","r","e","n","t","l","y"," ","a","i","r","i","n","g">>, <<"n","o","t"," ","y","e","t"," ","a","i","r","e","d">>}
AiringProperty(airing_status) ==
    Prop("multi_select",
         <<IF Lower(airing_status) \in AiringNames THEN "AIRING" ELSE "ENDED">>)

\* lines 802-815
AuthorsProperty(authors) ==
    Prop("multi_select",
         IF authors.type = "list" THEN authors.val
         ELSE SelectSeq([i \in 1..Len(SplitOn(authors.val, ",")) |->
                            Strip(SplitOn(authors.val, ",")[i])],
                        LAMBDA author : author # <<>>))

\* lines 820-834: the year of a publication date, Absent where int() fails
PublishedYear(published_date) ==
    IF published_date.type = "int" THEN Some(published_date.val)
    ELSE IF IsDigits(Strip(SplitOn(published_date.val, "-")[1]))
         THEN Some(IntOf(Strip(SplitOn(published_date.val, "-")[1])))
         ELSE Absent

\* lines 893-903
CategoriesProperty(categories) ==
    Prop("multi_select",
         IF categories.type = "list" THEN categories.val ELSE <<categories.val>>)

\* lines 547-570, 720-743, 930-953: the page handed to pages.create
PageData(properties, icon_url, poster_url) ==
    [properties |-> properties, icon |-> icon_url, cover |-> poster_url]

\* the answers of the Notion API
NotionAnswers == {"ok", "unauthorized"}

\* raise ValueError(...): no request is sent
Refused(notion) == [reqs |-> <<>>, ret |-> None, raised |-> TRUE, store |-> notion.pages]

\* client.pages.create(**page_data) and lines 573-580, 746-753, 956-963:
\* the API answers with the created page, or the client raises and the
\* call returns False
CreatePage(page_data, notion) ==
    [reqs |-> <<[type |-> "create", page |-> page_data, answer |-> notion.answer]>>,
     ret |-> Bool(notion.answer = "ok"),
     raised |-> FALSE,
     store |-> IF notion.answer = "ok" THEN Append(notion.pages, page_data)
               ELSE notion.pages]

\* NotionService.add_game, lines 475-580.  self is the service object
\* (client, database_id) and the time zone of its process, notion the
\* database and the answer of the API.
add_game(self, name, icon_url, poster_url, release_timestamp, status, platform, notion) ==
    IF ~self.client \/ ~self.database_id THEN Refused(notion)
    ELSE CreatePage(
           PageData(
             ("Name" :> Prop("title", <<name>>))
             @@ Given(NonZero(release_timestamp), "Wydano",
                      Prop("number", YearOf(release_timestamp.val, self.utc_offset)))
             @@ Given(Filled(status), "Status", StatusProperty(status.val))
             @@ Given(Filled(platform), "Platforma", Prop("select", platform.val)),
             icon_url, poster_url),
           notion)

\* NotionService.add_anime, lines 582-753
add_anime(self, name, icon_url, poster_url, release_year, status, studio, episodes, seasons, airing_status, synopsis, mal_url, anidb_url, notion) ==
    IF ~self.client \/ ~self.database_id THEN Refused(notion)
    ELSE CreatePage(
           PageData(
             ("Name" :> Prop("title", <<name>>))
             @@ Given(NonZero(release_year), "Wydano", Prop("number", release_year.val))
             @@ Given(Filled(status), "Status", StatusProperty(status.val))
             @@ Given(Truthy(studio), "Studio", StudioProperty(studio.val))
             @@ Given(episodes.has, "Episodes", Prop("number", episodes.val))
             @@ Given(seasons.has, "Seasons", Prop("number", seasons.val))
             @@ Given(airing_status.has, "Airing", AiringProperty(airing_status.val))
             @@ Given(Filled(synopsis), "Synopsis", Prop("rich_text", <<synopsis.val>>))
             @@ Given(mal_url.has, "MAL", Prop("url", mal_url.val))
             @@ Given(anidb_url.has, "AniDB", Prop("url", anidb_url.val)),
             icon_url, poster_url),
           notion)

\* NotionService.add_book, lines 755-963
add_book(self, title, authors, icon_url, poster_url, published_date, status, format_type, page_count, publisher, description, categories, isbn, info_link, notion) ==
    IF ~self.client \/ ~self.database_id THEN Refused(notion)
    ELSE CreatePage(
           PageData(
             ("Name" :> Prop("title", <<title>>))
             @@ Given(Truthy(authors), "Authors", AuthorsProperty(authors.val))
             @@ Given(Truthy(published_date) /\ PublishedYear(published_date.val).has,
                      "Published", Prop("number", PublishedYear(published_date.val).val))
             @@ Given(Filled(status), "Status", StatusProperty(status.val))
             @@ Given(Filled(format_type), "Format", Prop("select", format_type.val))
             @@ Given(page_count.has, "Pages", Prop("number", page_count.val))
             @@ Given(Filled(publisher), "Publisher", Prop("rich_text", <<publisher.val>>))
             @@ Given(Filled(description), "Description",
                      Prop("rich_text", <<description.val>>))
             @@ Given(Truthy(categories), "Categories", CategoriesProperty(categories.val))
             @@ Given(isbn.has, "ISBN", Prop("rich_text", <<isbn.val>>))
             @@ Given(info_link.has, "Info", Prop("rich_text", <<info_link.val>>)),
             icon_url, poster_url),
           notion)

\* client.pages.update(**update_data) and lines 328-334: the API merges the
\* properties and slots of the request into the page, or the client raises
\* (unknown page, rejected request) and the call returns False
UpdatePage(update_data, notion) ==
    IF notion.answer = "ok" /\ update_data.page_id \in 1..Len(notion.pages)
    THEN [reqs |-> <<[type |-> "update", data |-> update_data, answer |-> "ok"]>>,
          ret |-> Bool(TRUE),
          raised |-> FALSE,
          store |-> [notion.pages EXCEPT ![update_data.page_id] =
                       [properties |-> GetOr(update_data.properties, <<>>) @@ @.properties,
                        icon |-> IF update_data.icon.has THEN update_data.icon ELSE @.icon,
                        cover |-> IF update_data.cover.has THEN update_data.cover
                                  ELSE @.cover]]]
    ELSE [reqs |-> <<[type |-> "update", data |-> update_data,
                      answer |-> IF notion.answer = "ok" THEN "not_found"
                                 ELSE notion.answer]>>,
          ret |-> Bool(FALSE),
          raised |-> FALSE,
          store |-> notion.pages]

\* the properties of an update request that clears the status it was not given
UpdatePropertiesClearing(name, release_year, status, platform) ==
    Given(Filled(name), "Name", Prop("title", <<name.val>>))
    @@ Given(NonZero(release_year), "Wydano", Prop("number", release_year.val))
    @@ Given(TRUE, "Status", IF status.has THEN StatusProperty(status.val)
                             ELSE Prop("multi_select", <<>>))
    @@ Given(platform.has, "Platforma", Prop("select", platform.val))

\* lines 257-307: the properties of the update request
UpdateProperties(name, release_year, status, platform) ==
    Given(Filled(name), "Name", Prop("title", <<name.val>>))
    @@ Given(NonZero(release_year), "Wydano", Prop("number", release_year.val))
    @@ Given(status.has, "Status", StatusProperty(status.val))
    @@ Given(platform.has, "Platforma", Prop("select", platform.val))

\* NotionService.update_game, lines 236-334
update_game(self, page_id, name, release_year, icon_url, poster_url, status, platform, notion) ==
    IF ~self.client THEN Refused(notion)
    ELSE UpdatePage(
           [page_id |-> page_id,
            properties |->
              IF DOMAIN UpdateProperties(name, release_year, status, platform) # {}
              THEN Some(UpdateProperties(name, release_year, status, platform))
              ELSE Absent,
            icon |-> icon_url,
            cover |-> poster_url],
           notion)

\* lines 119-161 (list_games) and 192-228 (get_game): the record of a page.
\* The API returns the plain_text of a text part equal to its content and
\* a property that was never set as null.  platform is TRUE on the path
\* that reads Platforma.
GameData(page_id, page, platform) ==
    [id |-> page_id,
     properties |->
        Given("Name" \in DOMAIN page.properties /\ page.properties.Name.value # <<>>,
              "name", Join(page.properties.Name.value))
        @@ Given("Wydano" \in DOMAIN page.properties,
                 "release_year", page.properties.Wydano.value)
        @@ Given("Status" \in DOMAIN page.properties
                   /\ page.properties.Status.value # <<>>,
                 "status", page.properties.Status.value[1])
        @@ Given(platform /\ "Platforma" \in DOMAIN page.properties,
                 "platform", page.properties.Platforma.value),
     cover_url |-> page.cover,
     icon_url |-> page.icon]

\* a listing and its cursor
Listing(games, next_cursor) == [tag |-> "listing", val |-> games, next_cursor |-> next_cursor]

\* client.databases.query: page_size pages from the cursor on, in the
\* order of the database, and the cursor of the page that follows
QueryDatabase(pages, page_size, start_cursor) ==
    [first |-> GetOr(start_cursor, 1),
     last |-> IF GetOr(start_cursor, 1) + page_size - 1 < Len(pages)
              THEN GetOr(start_cursor, 1) + page_size - 1 ELSE Len(pages)]

\* list_games with a query that leaves the cursor out
list_games_from_start(self, limit, start_cursor, sort_by, notion) ==
    LET sent == <<[type |-> "query", page_size |-> limit, start_cursor |-> start_cursor,
                   sorts |-> GetOr(sort_by, [property |-> "Name",
                                             direction |-> "ascending"]),
                   answer |-> notion.answer]>>
        Results(q) ==
            Listing([i \in 1..(q.last - q.first + 1) |->
                        GameData(q.first + i - 1, notion.pages[q.first + i - 1], TRUE)],
                    IF q.last < Len(notion.pages) THEN Some(q.last + 1) ELSE Absent)
    IN IF ~self.client \/ ~self.database_id THEN Refused(notion)
       ELSE [reqs |-> sent,
             ret |-> IF notion.answer = "ok"
                     THEN Results(QueryDatabase(notion.pages, limit, Absent))
                     ELSE Listing(<<>>, Absent),
             raised |-> FALSE,
             store |-> notion.pages]

\* NotionService.list_games, lines 79-172
list_games(self, limit, start_cursor, sort_by, notion) ==
    LET sent == <<[type |-> "query", page_size |-> limit, start_cursor |-> start_cursor,
                   sorts |-> GetOr(sort_by, [property |-> "Name",
                                             direction |-> "ascending"]),
                   answer |-> notion.answer]>>
        Results(q) ==
            Listing([i \in 1..(q.last - q.first + 1) |->
                        GameData(q.first + i - 1, notion.pages[q.first + i - 1], TRUE)],
                    IF q.last < Len(notion.pages) THEN Some(q.last + 1) ELSE Absent)
    IN IF ~self.client \/ ~self.database_id THEN Refused(notion)
       ELSE [reqs |-> sent,
             ret |-> IF notion.answer = "ok"
                     THEN Results(QueryDatabase(notion.pages, limit, start_cursor))
                     ELSE Listing(<<>>, Absent),
             raised |-> FALSE,
             store |-> notion.pages]

\* NotionService.get_game, lines 174-234
get_game(self, page_id, notion) ==
    IF ~self.client THEN Refused(notion)
    ELSE [reqs |-> <<[type |-> "retrieve", page_id |-> page_id,
                      answer |-> IF notion.answer = "ok" /\ page_id \notin 1..Len(notion.pages)
                                 THEN "not_found" ELSE notion.answer]>>,
          ret |-> IF notion.answer = "ok" /\ page_id \in 1..Len(notion.pages)
                  THEN Rec(GameData(page_id, notion.pages[page_id], FALSE))
                  ELSE None,
          raised |-> FALSE,
          store |-> notion.pages]

\* lines 391-434 (search_games): the record of a page.  The path reads
\* Platforma and the cover, and never reads the icon.
SearchData(page_id, page) ==
    [id |-> page_id,
     properties |-> GameData(page_id, page, TRUE).properties,
     cover_url |-> page.cover,
     icon_url |-> Absent]

\* client.databases.query with the filter of lines 380-385: the pages whose
\* title contains the query
TitleContains(pages, query) ==
    SelectSeq([i \in 1..Len(pages) |-> i],
              LAMBDA i : /\ "Name" \in DOMAIN pages[i].properties
                         /\ Contains(Join(pages[i].properties.Name.value), query))

\* NotionService.search_games, lines 362-438
search_games(self, query, notion) ==
    IF ~self.client \/ ~self.database_id THEN Refused(notion)
    ELSE [reqs |-> <<[type |-> "query", filter |-> [property |-> "Name", contains |-> query],
                      answer |-> notion.answer]>>,
          ret |-> IF notion.answer = "ok"
                  THEN List([i \in 1..Len(TitleContains(notion.pages, query)) |->
                               SearchData(TitleContains(notion.pages, query)[i],
                                          notion.pages[TitleContains(notion.pages, query)[i]])])
                  ELSE List(<<>>),
          raised |-> FALSE,
          store |-> notion.pages]

---------------------------------------------------------------------------
(* The asset calls of SteamGridDB, app/services/steamgriddb.py             *)

Asset(url) == [tag |-> "url", val |-> url]
AssetReq(kind, game_id) ==
    [type |-> "asset", provider |-> "steamgriddb", kind |-> kind, id |-> game_id]

\* the return value of an asset call as an optional URL
AssetUrl(r) == IF r.ret.tag = "url" THEN Some(r.ret.val) ELSE Absent

\* lines 87-100 and 127-135: the URL picked from the data list.  Reading
\* data["success"] or data["data"] of an object without the key raises.
PickAsset(sent, a, build, pick) ==
    CASE a.shape \in {"transport", "http_error"} -> NotFound(sent)
      [] a.shape = "not_json" -> JsonError(sent, build)
      [] a.shape \in {"null", "no_key", "success_no_data"} -> Thrown(sent)
      [] a.shape \in {"api_error", "api_error_no_message", "empty"} -> NotFound(sent)
      [] OTHER -> [reqs |-> sent, ret |-> Asset(a.hits[pick].url), raised |-> FALSE]

\* lines 92-100: the first PNG icon, or else the first icon
FirstIcon(icons) ==
    IF \E i \in 1..Len(icons) : icons[i].mime = "image/png"
    THEN CHOOSE i \in 1..Len(icons) :
            /\ icons[i].mime = "image/png"
            /\ \A j \in 1..(i - 1) : icons[j].mime # "image/png"
    ELSE 1

\* SteamGridDBService.get_game_icon, lines 68-108
get_game_icon(api_key_set, game_id, a, build) ==
    IF ~api_key_set THEN Thrown(<<>>)
    ELSE PickAsset(<<AssetReq("icon", game_id)>>, a, build, FirstIcon(a.hits))

\* SteamGridDBService.get_game_poster, lines 110-143
get_game_poster(api_key_set, game_id, a, build) ==
    IF ~api_key_set THEN Thrown(<<>>)
    ELSE PickAsset(<<AssetReq("grid", game_id)>>, a, build, 1)

---------------------------------------------------------------------------
(* The add workflows: main.py, anime.py, books.py, vinyls.py               *)

\* what a workflow printed, and a workflow that is over
Shown(messages) == [tag |-> "shown", val |-> messages]
Ended(sent, messages, pages) ==
    [reqs |-> sent, ret |-> Shown(messages), raised |-> FALSE, store |-> pages]

\* the workflow after the add operation: the success message follows the
\* call whatever it returned; an exception reaches the except clause
AfterAdd(sent, r) ==
    IF r.raised THEN Ended(sent \o r.reqs, <<"selected", "error">>, r.store)
    ELSE Ended(sent \o r.reqs, <<"selected", "added">>, r.store)

\* The hits of the game search: the search format with a release number,
\* the autocomplete format with a release text, a hit whose release cannot
\* be read and a hit with neither name nor text.  A hit of an answer names
\* its template.
GameTemplates == [
    NAMED |-> [name |-> Some(<<"H","a","d","e","s">>), text |-> Absent,
               release |-> Absent, release_date |-> Some(Num(1600300800))],
    AUTOCOMPLETE |-> [name |-> Absent, text |-> Some(<<"H","a","d","e","s">>),
                      release |-> Some(Str(<<"S","e","p"," ","2","0","2","0"," ","(","1","6","0","0","3","0","0","8","0","0",")">>)), release_date |-> Absent],
    UNDATED |-> [name |-> Some(<<"H","a","d","e","s">>), text |-> Absent,
                 release |-> Some(Str(<<"U","n","k","n","o","w","n">>)), release_date |-> Some(Str(<<"2","0","2","0">>))],
    BARE |-> [name |-> Absent, text |-> Absent,
              release |-> Absent, release_date |-> Absent] ]
GameHit(game) == GameTemplates[game.kind]

\* main.py 150-169: int(value), and the number between the parentheses of
\* a text like "Sep 2021 (1632182400)"
Timestamp(value) ==
    IF value.type = "int" THEN Some(value.val)
    ELSE IF IsDigits(value.val) THEN Some(IntOf(value.val))
    ELSE IF /\ InList("(", value.val)
            /\ InList(")", value.val)
            /\ IsDigits(SplitOn(SplitOn(value.val, "(")[2], ")")[1])
         THEN Some(IntOf(SplitOn(SplitOn(value.val, "(")[2], ")")[1]))
         ELSE Absent

\* main.py 147-169: the keys 'release' and 'release_date', in this order
ReleaseTimestamp(selected_game) ==
    IF selected_game.release.has /\ Timestamp(selected_game.release.val).has
    THEN Timestamp(selected_game.release.val)
    ELSE IF selected_game.release_date.has
         THEN Timestamp(selected_game.release_date.val)
         ELSE Absent

\* a hit of the game search that is offered as a choice (main.py 101-110)
IsGameChoice(game) == game.name.has \/ game.text.has

\* main.add_game, lines 81-215.  steam is the API key being set, choice the
\* place of the selected choice (0 for "Cancel"), a, icon_a and poster_a the
\* answers of SteamGridDB.
main_add_game(steam, self, game_name, a, build, choice, icon_a, poster_a, status, platform, notion) ==
    LET Error(sent) == Ended(sent, <<"error">>, notion.pages)
        \* lines 126-131
        Name(game) == IF GameHit(game).name.has THEN GameHit(game).name.val
                      ELSE GameHit(game).text.val
        \* lines 203-212
        Add(sent, game, icon, poster) ==
            AfterAdd(sent, add_game(self, Name(game), icon, poster,
                                    ReleaseTimestamp(GameHit(game)), Some(status),
                                    Some(platform), notion))
        \* line 141
        Poster(sent, game, icon, poster) ==
            IF poster.raised THEN Error(sent \o poster.reqs)
            ELSE Add(sent \o poster.reqs, game, icon, AssetUrl(poster))
        \* line 140
        Icon(sent, game, icon) ==
            IF icon.raised THEN Error(sent \o icon.reqs)
            ELSE Poster(sent \o icon.reqs, game, AssetUrl(icon),
                        get_game_poster(steam, game.id, poster_a, build))
        \* lines 118-136
        Select(sent, results) ==
            IF choice = 0 THEN Ended(sent, <<>>, notion.pages)
            ELSE IF ~IsGameChoice(GameHit(results[choice]))
                 THEN Ended(sent, <<"invalid_format">>, notion.pages)
                 ELSE Icon(sent, results[choice],
                           get_game_icon(steam, results[choice].id, icon_a, build))
        \* lines 93-97
        Search(r) ==
            IF r.raised THEN Error(r.reqs)
            ELSE IF r.ret.val = <<>> THEN Ended(r.reqs, <<"no_results">>, notion.pages)
            ELSE Select(r.reqs, r.ret.val)
    IN IF game_name = <<>> THEN Ended(<<>>, <<"empty">>, notion.pages)
       ELSE Search(search_game(steam, game_name, a, build))

\* anime.py 125-177: the arguments of add_anime
AnimeArgs(anime_name, anime_details, status) ==
    [name |-> anime_name,
     icon_url |-> anime_details.image_url,
     poster_url |-> anime_details.image_url,
     release_year |-> anime_details.year,
     status |-> status,
     studio |-> IF anime_details.studios # <<>>
                THEN Some(Str(anime_details.studios[1])) ELSE Absent,
     episodes |-> anime_details.episodes,
     seasons |-> Some(anime_details.seasons),
     airing_status |-> anime_details.status,
     synopsis |-> anime_details.synopsis,
     mal_url |-> anime_details.url,
     anidb_url |-> Absent]

\* notion_service.add_anime(**c)
AddAnimeWith(self, c, notion) ==
    add_anime(self, c.name, c.icon_url, c.poster_url, c.release_year, c.status,
              c.studio, c.episodes, c.seasons, c.airing_status, c.synopsis, c.mal_url,
              c.anidb_url, notion)

\* anime.add_anime, lines 79-182.  a is the answer of the search, detail_a
\* the answer of the anime endpoint.
anime_add_anime(self, anime_name, a, build, choice, detail_a, status, notion) ==
    LET Error(sent) == Ended(sent, <<"error">>, notion.pages)
        \* lines 125-177
        Add(sent, anime, details) ==
            AfterAdd(sent, AddAnimeWith(self,
                                        AnimeArgs(anime.title.val, details, Some(status)),
                                        notion))
        \* lines 118-123
        Details(sent, anime, r) ==
            IF r.raised THEN Error(sent \o r.reqs)
            ELSE IF r.ret.tag = "none"
                 THEN Ended(sent \o r.reqs, <<"no_details">>, notion.pages)
                 ELSE Add(sent \o r.reqs, anime, r.ret.val)
        \* lines 103-115: anime['title'] of a hit without a title raises
        Select(sent, results) ==
            IF choice = 0 THEN Ended(sent, <<>>, notion.pages)
            ELSE IF ~results[choice].title.has THEN Error(sent)
            ELSE Details(sent, results[choice],
                         get_anime_full_details(results[choice].mal_id, detail_a, build))
        \* lines 90-94
        Search(r) ==
            IF r.raised THEN Error(r.reqs)
            ELSE IF r.ret.val = <<>> THEN Ended(r.reqs, <<"no_results">>, notion.pages)
            ELSE Select(r.reqs, r.ret.val)
    IN IF anime_name = <<>> THEN Ended(<<>>, <<"empty">>, notion.pages)
       ELSE Search(search_anime(anime_name, a, build))

\* get_book_details with the Polish lookup that may follow (lines 227-490)
get_book_details_whole(book_id, work, editions, detail, authors, p, build, lookup) ==
    LET Lookup(got, looked) ==
            [reqs |-> got.reqs \o looked.reqs, ret |-> looked.ret, raised |-> FALSE]
        Resume(got) ==
            IF got.lookup
            THEN Lookup(got, polish_lookup(got.ret.val, OriginalTitle(work), lookup[1],
                                           lookup[2], lookup[3], lookup[4]))
            ELSE [reqs |-> got.reqs, ret |-> got.ret, raised |-> got.raised]
    IN Resume(get_book_details(book_id, work, editions, detail, authors, p, build))

\* books.py 252-259: the small cover of the record's cover_urls, or else
\* its cover_url.  cover_urls holds the URLs of the last source that was
\* adopted, whether or not cover_url survived the last probe.
SmallCover(book_details) ==
    IF book_details.cover_url.has
    THEN Some([book_details.cover_url.val EXCEPT !.size = "S"])
    ELSE IF ~book_details.cover_urls.has THEN Absent
    ELSE Some(CoverUrl(book_details.cover_urls.val,
                       CASE book_details.cover_urls.val = "id" ->
                                ToString(book_details.cover_id.val)
                         [] book_details.cover_urls.val = "isbn" -> book_details.isbn[1]
                         [] OTHER -> "OL" \o book_details.id \o "W",
                       "S"))

\* books.py 182-279: the arguments of add_book.  extra holds the members of
\* the record that get_book_details copies from the work (subjects,
\* first_publish_year) and from the edition (publishers, page_count).
BookArgs(book_details, extra, status, format_type) ==
    [title |-> book_details.title.val,
     authors |-> Some(Items(book_details.authors)),
     icon_url |-> SmallCover(book_details),
     poster_url |-> book_details.cover_url,
     published_date |-> extra.first_publish_year,
     status |-> status,
     format_type |-> format_type,
     page_count |-> extra.page_count,
     publisher |-> IF extra.publishers # <<>> THEN Some(extra.publishers[1]) ELSE Absent,
     description |-> Absent,
     categories |-> Some(Items(SubSeq(extra.subjects, 1,
                                      IF Len(extra.subjects) < 5
                                      THEN Len(extra.subjects) ELSE 5))),
     isbn |-> IF book_details.isbn # <<>> THEN Some(book_details.isbn[1]) ELSE Absent,
     info_link |-> Some("https://openlibrary.org/works/" \o book_details.id)]

\* notion_service.add_book(**c)
AddBookWith(self, c, notion) ==
    add_book(self, c.title, c.authors, c.icon_url, c.poster_url, c.published_date,
             c.status, c.format_type, c.page_count, c.publisher, c.description,
             c.categories, c.isbn, c.info_link, notion)

\* books.py 121: the queries that take the direct search
MurakamiWords == {<<"t","s","u","k","u","r","u">>, <<"t","a","z","a","k","i">>, <<"b","e","z","b","a","r","w","n","y">>, <<"m","u","r","a","k","a","m","i">>}
IsMurakamiQuery(query) == \E word \in MurakamiWords : Contains(Lower(query), word)

\* the work id a search result at place key carries
WorkId(key) == "OL4588" \o ToString(key) \o "W"

\* books.py 121-141: search_results is the book of the direct search, or
\* else what search_book returned
SearchResults(direct, searched) ==
    IF direct.found.has THEN <<direct.found.val>> ELSE searched.ret.val

\* the outcome of a service call that the workflow does not make
NotCalled == [reqs |-> <<>>, ret |-> None, raised |-> FALSE]
NoDirect == [reqs |-> <<>>, found |-> Absent]

\* books.add_book, lines 79-283.  direct is the outcome of the direct search
\* (line 124), searched that of search_book (lines 129 and 137) and got that
\* of get_book_details (line 175).
books_add_book(self, query, direct, searched, choice, got, extra, status, format_type, notion) ==
    LET Left(sent) ==
            [reqs |-> sent, ret |-> None, raised |-> TRUE, store |-> notion.pages]
        \* lines 264-283
        Add(sent) ==
            AfterAdd(sent, AddBookWith(self,
                                       BookArgs(got.ret.val, extra, Some(status),
                                                Some(format_type)),
                                       notion))
        \* lines 175-179: an exception of get_book_details leaves the workflow
        Details(sent) ==
            IF got.raised THEN Left(sent \o got.reqs)
            ELSE IF got.ret.tag = "none"
                 THEN Ended(sent \o got.reqs, <<"no_details">>, notion.pages)
                 ELSE Add(sent \o got.reqs)
        \* lines 144-175
        Select(sent) ==
            IF SearchResults(direct, searched) = <<>>
            THEN Ended(sent, <<"no_results">>, notion.pages)
            ELSE IF choice = 0 THEN Ended(sent, <<>>, notion.pages)
            ELSE Details(sent)
    \* lines 105-141: an exception of search_book leaves the workflow
    IN IF query = <<>> THEN Ended(<<>>, <<"empty">>, notion.pages)
       ELSE IF direct.found.has THEN Select(direct.reqs)
       ELSE IF searched.raised THEN Left(direct.reqs \o searched.reqs)
       ELSE Select(direct.reqs \o searched.reqs)

\* vinyls.add_vinyl, lines 183-344.  NotionService has no add_vinyl: the
\* call at line 323 raises AttributeError, which line 340 catches.
vinyls_add_vinyl(self, search_type, query, a, build, choice, detail_a, status, notion) ==
    LET Error(sent) == Ended(sent, <<"error">>, notion.pages)
        \* lines 266-342
        Details(sent, r) ==
            IF r.raised THEN Error(sent \o r.reqs)
            ELSE IF r.ret.tag = "none"
                 THEN Ended(sent \o r.reqs, <<"no_details">>, notion.pages)
                 ELSE Ended(sent \o r.reqs, <<"selected", "error">>, notion.pages)
        \* lines 245-264
        Select(sent, results) ==
            IF choice = 0 THEN Ended(sent, <<>>, notion.pages)
            ELSE Details(sent, get_vinyl_details(results[choice].id, detail_a, build))
        \* lines 222-230
        Search(r) ==
            IF r.raised THEN Error(r.reqs)
            ELSE IF r.ret.val = <<>> THEN Ended(r.reqs, <<"no_results">>, notion.pages)
            ELSE Select(r.reqs, r.ret.val)
    IN Search(search_vinyl(query, search_type, a, build))

---------------------------------------------------------------------------
(* The store specification: one call of the store service per visit of     *)
(* the menu                                                                *)

\* a call that may change the database
StoreCall(name, a, r) ==
    /\ op' = name
    /\ args' = a
    /\ reqs' = r.reqs
    /\ ret' = r.ret
    /\ raised' = r.raised
    /\ store' = r.store

\* the service objects: token and database id set or not, local time at
\* UTC or an hour east of it
Working == [client |-> TRUE, database_id |-> TRUE, utc_offset |-> 0]
NoToken == [Working EXCEPT !.client = FALSE]
NoDatabase == [Working EXCEPT !.database_id = FALSE]
Services == {Working, NoToken, NoDatabase, [Working EXCEPT !.utc_offset = 3600]}

\* the database as a call finds it, and the answer the API gives the call
Notion(answer) == [pages |-> store, answer |-> answer]

Hades == <<"H","a","d","e","s">>
Ukonczone == <<"U","k","o","n'","c","z","o","n","e">>
CowboyBebop == <<"C","o","w","b","o","y"," ","B","e","b","o","p">>
PC == <<"P","C">>
Physical == <<"P","h","y","s","i","c","a","l">>
HadesIcon == "https://cdn2.steamgriddb.com/icon/hades.png"
HadesPoster == "https://cdn2.steamgriddb.com/grid/hades.jpg"

\* "no status" in every letter case
NoStatusSpellings ==
    {[i \in 1..Len(NoStatus) |-> IF i \in up THEN UpperChar(NoStatus[i]) ELSE NoStatus[i]] :
        up \in SUBSET (1..Len(NoStatus))}

\* the statuses a call is given: none, the empty text, every spelling of
\* the sentinel, texts that differ from it by one character, a plain name
StatusInputs ==
    {Absent, Some(<<>>), Some(Ukonczone), Some(<<"N","o"," ","S","t","a","t","u","s"," ">>), Some(<<"N","o"," ","S","t","a","t","u","s","e","s">>)}
    \cup {Some(s) : s \in NoStatusSpellings}
FewStatuses == {Absent, Some(<<>>), Some(Ukonczone), Some(<<"N","o"," ","S","t","a","t","u","s">>), Some(<<"n","O"," ","s","T","A","T","U","S">>)}

\* the epoch and 1999-12-31 23:59:59 UTC
Timestamps == {0, 946684799}

AddGameArgs(self, name, icon_url, poster_url, release_timestamp, status, platform, answer) ==
    [self |-> self, name |-> name, icon_url |-> icon_url, poster_url |-> poster_url,
     release_timestamp |-> release_timestamp, status |-> status, platform |-> platform,
     answer |-> answer]

AddGameCall(c) ==
    StoreCall("add_game", c,
              add_game(c.self, c.name, c.icon_url, c.poster_url, c.release_timestamp,
                       c.status, c.platform, Notion(c.answer)))

AddGame ==
    /\ op = "menu"
    /\ Len(store) < MaxPages
    /\ \/ \E self \in Services, answer \in NotionAnswers,
             release_timestamp \in {Absent} \cup {Some(t) : t \in Timestamps} :
            AddGameCall(AddGameArgs(self, Hades, Some(HadesIcon), Some(HadesPoster),
                                    release_timestamp, Some(Ukonczone), Some(PC), answer))
       \/ \E status \in StatusInputs, platform \in {Absent, Some(<<>>)} :
            AddGameCall(AddGameArgs(Working, Hades, Absent, Absent, Absent, status,
                                    platform, "ok"))

\* records of the anime endpoint and the records hydration makes of them
AnimeSamples ==
    {[title |-> Some(CowboyBebop), episodes |-> Some(26), status |-> Some(FinishedAiring),
      synopsis |-> Some(BountyHunters), year |-> Some(1998),
      url |-> Some("https://myanimelist.net/anime/1"),
      image |-> "https://cdn.myanimelist.net/1l.jpg", studios |-> <<Sunrise, Bones>>,
      relations |-> Some(<<"Sequel">>)],
     [title |-> Some(CowboyBebop), episodes |-> Absent, status |-> Some(CurrentlyAiring),
      synopsis |-> Absent, year |-> Absent, url |-> Absent,
      image |-> "no_images", studios |-> <<>>, relations |-> Absent]}
HydratedAnime ==
    {get_anime_full_details(1, Hits(d), "json_error_is_request_exception").ret.val :
        d \in AnimeSamples}

AddAnime ==
    /\ op = "menu"
    /\ Len(store) < MaxPages
    /\ \E anime_details \in HydratedAnime, status \in FewStatuses,
          self \in {Working, NoToken}, answer \in NotionAnswers :
         \E c \in {AnimeArgs(CowboyBebop, anime_details, status)} :
            StoreCall("add_anime", [self |-> self, call |-> c, answer |-> answer],
                      AddAnimeWith(self, c, Notion(answer)))

\* records of get_book_details, and the members the work and the edition
\* add to them
HydratedBooks ==
    {get_book_details_whole("OL45883W", Hits(PlainWork), e, Unused, <<NamedAuthor>>, p,
                            "json_error_is_request_exception",
                            FailedLookup(TitleDune)).ret.val :
        e \in {PlainEditions}, p \in {[i \in 1..MaxProbes |-> "200_large"]}}
NoExtra == [subjects |-> <<>>, first_publish_year |-> Absent, publishers |-> <<>>,
            page_count |-> Absent]
BookExtras ==
    {NoExtra,
     [subjects |-> <<<<"S","c","i","e","n","c","e"," ","f","i","c","t","i","o","n">>, <<"F","i","c","t","i","o","n">>>>, first_publish_year |-> Some(Str(<<"1","9","6","5">>)),
      publishers |-> <<<<"C","h","i","l","t","o","n"," ","B","o","o","k","s">>>>, page_count |-> Some(412)],
     [NoExtra EXCEPT !.first_publish_year = Some(Str(<<"A","u","g","u","s","t"," ","1","9","6","5">>))],
     [NoExtra EXCEPT !.first_publish_year = Some(Str(<<"1","9","6","5","-","0","8","-","0","1">>))]}
\* a publication date that is a number
NumberedExtra == [NoExtra EXCEPT !.first_publish_year = Some(Num(1965))]

AddBookCall(self, c, answer) ==
    StoreCall("add_book", [self |-> self, call |-> c, answer |-> answer],
              AddBookWith(self, c, Notion(answer)))

AddBook ==
    /\ op = "menu"
    /\ Len(store) < MaxPages
    /\ \E book_details \in HydratedBooks :
         \E extra \in BookExtras, numbered \in BOOLEAN, status \in FewStatuses,
            self \in {Working, NoDatabase}, answer \in NotionAnswers :
            /\ \/ status = Some(Ukonczone) /\ self = Working /\ answer = "ok"
               \/ extra = NoExtra /\ ~numbered
            /\ numbered => extra = NoExtra
            /\ AddBookCall(self,
                           BookArgs(book_details,
                                    IF numbered THEN NumberedExtra ELSE extra, status,
                                    IF numbered THEN Absent ELSE Some(Physical)),
                           answer)

UpdateGameArgs(self, page_id, name, release_year, icon_url, poster_url, status, platform, answer) ==
    [self |-> self, page_id |-> page_id, name |-> name, release_year |-> release_year,
     icon_url |-> icon_url, poster_url |-> poster_url, status |-> status,
     platform |-> platform, answer |-> answer]

UpdateGameCall(c) ==
    StoreCall("update_game", c,
              update_game(c.self, c.page_id, c.name, c.release_year, c.icon_url,
                          c.poster_url, c.status, c.platform, Notion(c.answer)))

UpdateGame ==
    /\ op = "menu"
    /\ \E page_id \in 1..(Len(store) + 1) :
         \/ \E status \in FewStatuses, self \in {Working, NoToken},
               answer \in NotionAnswers :
              UpdateGameCall(UpdateGameArgs(self, page_id, Absent, Absent, Absent, Absent,
                                            status, Absent, answer))
         \/ \E name \in {Absent, Some(<<>>)}, release_year \in {Absent, Some(0)} :
              UpdateGameCall(UpdateGameArgs(Working, page_id, name, release_year, Absent,
                                            Absent, Absent, Absent, "ok"))
         \/ UpdateGameCall(UpdateGameArgs(Working, page_id, Some(Hades), Some(2021),
                                          Some(HadesIcon), Some(HadesPoster), Absent,
                                          Some(PC), "ok"))

ListGames ==
    /\ op = "menu"
    /\ \E self \in {Working, NoToken, NoDatabase}, limit \in {1, 100},
          start_cursor \in {Absent} \cup {Some(i) : i \in 1..Len(store)},
          sort_by \in {Absent, Some([property |-> "Wydano", direction |-> "descending"])},
          answer \in NotionAnswers :
         StoreCall("list_games",
                   [self |-> self, limit |-> limit, start_cursor |-> start_cursor,
                    sort_by |-> sort_by, answer |-> answer],
                   list_games(self, limit, start_cursor, sort_by, Notion(answer)))

GetGame ==
    /\ op = "menu"
    /\ \E self \in {Working, NoToken}, page_id \in 1..(Len(store) + 1),
          answer \in NotionAnswers :
         StoreCall("get_game", [self |-> self, page_id |-> page_id, answer |-> answer],
                   get_game(self, page_id, Notion(answer)))

SearchGames ==
    /\ op = "menu"
    /\ \E self \in {Working, NoToken, NoDatabase}, query \in {Hades, <<"e">>, <<"x">>},
          answer \in NotionAnswers :
         StoreCall("search_games", [self |-> self, query |-> query, answer |-> answer],
                   search_games(self, query, Notion(answer)))

NextStore ==
    \/ Menu
    \/ AddGame
    \/ AddAnime
    \/ AddBook
    \/ UpdateGame
    \/ ListGames
    \/ GetGame
    \/ SearchGames

StoreSpec == Init /\ [][NextStore]_vars

---------------------------------------------------------------------------
(* Properties of the store service                                         *)

IsAdd == op \in {"add_game", "add_anime", "add_book"}
IsSerialize == IsAdd \/ op = "update_game"

\* the status a serialize operation was given
GivenStatus == IF op \in {"add_anime", "add_book"} THEN args.call.status ELSE args.status

\* the properties of the request a serialize operation sent
SentProperties ==
    IF op = "update_game" THEN GetOr(reqs[1].data.properties, <<>>)
    ELSE reqs[1].page.properties

\* the multi-select a status stands for
StatusTags(status) == IF status \in NoStatusSpellings THEN <<>> ELSE <<status>>

\* C10: a serialize operation (add_game, add_anime, add_book, update_game)
\* that is given a non-empty status and sends its request carries a Status
\* property that is a multi-select: the empty list when the status is
\* "no status" in any letter case, and the list of that one name for any
\* other status; the page an add operation stores carries the same property.
C10_StatusSentinel ==
    (IsSerialize /\ reqs # <<>> /\ Filled(GivenStatus)) =>
        /\ "Status" \in DOMAIN SentProperties
        /\ SentProperties.Status = Prop("multi_select", StatusTags(GivenStatus.val))
        /\ (IsAdd /\ ret = Bool(TRUE)) =>
              store[Len(store)].properties.Status
                 = Prop("multi_select", StatusTags(GivenStatus.val))

\* a sentinel in mixed case sent as the empty list
C10_Witness ==
    /\ op = "add_game"
    /\ Filled(GivenStatus)
    /\ GivenStatus.val = <<"n","O"," ","s","T","A","T","U","S">>
    /\ reqs # <<>>
    /\ SentProperties.Status = Prop("multi_select", <<>>)
    /\ ret = Bool(TRUE)

\* the fields the game deserializer knows, and what it made of them
Reproduces(page, game) ==
    /\ DOMAIN page.properties \subseteq {"Name", "Wydano", "Status", "Platforma"}
    /\ "name" \in DOMAIN game.properties
    /\ game.properties.name = Join(page.properties.Name.value)
    /\ "Wydano" \in DOMAIN page.properties =>
          /\ "release_year" \in DOMAIN game.properties
          /\ game.properties.release_year = page.properties.Wydano.value
    /\ "Status" \in DOMAIN page.properties =>
          {page.properties.Status.value[i] : i \in 1..Len(page.properties.Status.value)}
             = IF "status" \in DOMAIN game.properties
               THEN {game.properties.status} ELSE {}
    /\ "Platforma" \in DOMAIN page.properties =>
          /\ "platform" \in DOMAIN game.properties
          /\ game.properties.platform = page.properties.Platforma.value
    /\ game.cover_url = page.cover
    /\ game.icon_url = page.icon

\* C9: every page of the database that list_games or get_game reads back
\* is reproduced: the record holds every property the page persists, with
\* the same text or number, the same set of names for a multi-select, and
\* the same cover and icon.
C9_RoundTrip ==
    /\ (op = "list_games" /\ ~raised) =>
          \A i \in 1..Len(ret.val) : Reproduces(store[ret.val[i].id], ret.val[i])
    /\ (op = "get_game" /\ ~raised /\ ret # None) =>
          Reproduces(store[args.page_id], ret.val)

\* the fields a call of update_game marks as changed: the arguments it
\* passes with a value (a name that is not empty, a year that is not 0)
Marked(c) ==
    [Name |-> Filled(c.name), Wydano |-> NonZero(c.release_year),
     Status |-> c.status.has, Platforma |-> c.platform.has]
MarkedProperties(c) == {n \in DOMAIN Marked(c) : Marked(c)[n]}

\* The operations of the store service
StoreOps == {"list_games", "get_game", "add_game", "add_anime", "add_book", "update_game"}

\* C14: a call of the store service whose request the store rejected for
\* its credentials ends in an error raised to the caller, never in an
\* ordinary result (an empty list, None or False).
C14_AuthErrorPropagates ==
    (op \in StoreOps /\ \E i \in 1..Len(reqs) : reqs[i].answer = "unauthorized")
        => raised

---------------------------------------------------------------------------
(* The add specification: one add workflow per visit of the menu.  The     *)
(* answer of a request that is never sent is Unused.                       *)

Json == "json_error_is_request_exception"

\* what the user types and picks
Murakami == <<"M","u","r","a","k","a","m","i">>
NoStatusTitle == <<"N","o"," ","S","t","a","t","u","s">>
Watching == <<"W","a","t","c","h","i","n","g">>
Reading == <<"R","e","a","d","i","n","g">>
InCollection == <<"I","n"," ","C","o","l","l","e","c","t","i","o","n">>
QueryDune == <<"d","u","n","e">>
QueryTsukuru == <<"T","s","u","k","u","r","u">>
QuerySextant == <<"S","e","x","t","a","n","t">>

GameSearches ==
    {Answer("transport"), Answer("api_error"), Answer("null"),
     Hits(<<[id |-> 1, kind |-> "NAMED"]>>),
     Hits(<<[id |-> 1, kind |-> "AUTOCOMPLETE"], [id |-> 2, kind |-> "BARE"]>>),
     Hits(<<[id |-> 1, kind |-> "BARE"], [id |-> 2, kind |-> "UNDATED"]>>)}
IconAnswers ==
    {Answer("transport"), Answer("no_key"), Answer("empty"),
     Hits(<<[mime |-> "image/vnd.microsoft.icon",
             url |-> "https://cdn2.steamgriddb.com/icon/hades.ico"],
            [mime |-> "image/png", url |-> HadesIcon]>>),
     Hits(<<[mime |-> "image/vnd.microsoft.icon",
             url |-> "https://cdn2.steamgriddb.com/icon/hades.ico"]>>)}
PosterAnswers ==
    {Answer("transport"), Answer("no_key"), Hits(<<[url |-> HadesPoster]>>)}

\* the choices of a game search answer besides "Cancel"
GameChoices(a) ==
    Cardinality({i \in 1..Len(a.hits) : IsGameChoice(GameHit(a.hits[i]))})

MainAddGame ==
    /\ op = "menu"
    /\ Len(store) < MaxPages
    /\ \E steam \in BOOLEAN, game_name \in {<<>>, Hades}, a \in GameSearches :
       \E choice \in 0..(IF game_name # <<>> /\ steam THEN GameChoices(a) ELSE 0) :
       \E icon_a \in IF choice > 0 /\ IsGameChoice(GameHit(a.hits[choice]))
                     THEN IconAnswers ELSE {Unused} :
       \E poster_a \in IF icon_a = Unused \/ icon_a.shape = "no_key"
                       THEN {Unused} ELSE PosterAnswers :
       \E given \in IF poster_a = Unused
                    THEN {[status |-> Ukonczone, self |-> Working, answer |-> "ok"]}
                    ELSE [status : {Ukonczone, NoStatusTitle}, self : {Working, NoToken},
                          answer : NotionAnswers] :
          StoreCall("main.add_game",
                    [steam |-> steam, self |-> given.self, game_name |-> game_name,
                     a1 |-> a, choice |-> choice, icon_a |-> icon_a,
                     poster_a |-> poster_a, status |-> given.status, platform |-> PC,
                     answer |-> given.answer],
                    main_add_game(steam, given.self, game_name, a, Json, choice, icon_a,
                                  poster_a, given.status, PC, Notion(given.answer)))

AnimeSearches ==
    {Answer("transport"), Answer("null"),
     Hits(<<[mal_id |-> 1, title |-> Some(CowboyBebop)]>>),
     Hits(<<[mal_id |-> 2, title |-> Absent], [mal_id |-> 1, title |-> Some(CowboyBebop)]>>)}

\* the choices of an anime search answer besides "Cancel"
AnimeChoices(a) == Cardinality({i \in 1..Len(a.hits) : a.hits[i].title.has})

AnimeAddAnime ==
    /\ op = "menu"
    /\ Len(store) < MaxPages
    /\ \E anime_name \in {<<>>, CowboyBebop}, a \in AnimeSearches :
       \E choice \in 0..(IF anime_name # <<>> THEN AnimeChoices(a) ELSE 0) :
       \E detail_a \in IF choice > 0 /\ a.hits[choice].title.has
                       THEN {Answer("transport"), Answer("null"), Answer("empty")}
                            \cup {Hits(d) : d \in AnimeSamples}
                       ELSE {Unused} :
       \E given \in IF detail_a.shape = "hits"
                    THEN [status : {Watching, NoStatusTitle}, self : {Working, NoToken},
                          answer : NotionAnswers]
                    ELSE {[status |-> Watching, self |-> Working, answer |-> "ok"]} :
          StoreCall("anime.add_anime",
                    [self |-> given.self, anime_name |-> anime_name, a1 |-> a,
                     choice |-> choice, detail_a |-> detail_a, status |-> given.status,
                     answer |-> given.answer],
                    anime_add_anime(given.self, anime_name, a, Json, choice, detail_a,
                                    given.status, Notion(given.answer)))

\* a lookup that finds a Polish book with a cover
FoundLookup == <<Unused, Unused, Hits(Docs(<<"PL_LANG_COVER">>)), Unused>>
AllPass == [i \in 1..MaxProbes |-> "200_large"]
FullExtra ==
    [subjects |-> <<<<"S","c","i","e","n","c","e"," ","f","i","c","t","i","o","n">>, <<"F","i","c","t","i","o","n">>>>, first_publish_year |-> Some(Str(<<"1","9","6","5">>)),
     publishers |-> <<<<"C","h","i","l","t","o","n"," ","B","o","o","k","s">>>>, page_count |-> Some(412)]

\* the probes fail up to the k-th and pass from there on
PassFrom(k) == [i \in 1..MaxProbes |-> IF i <= k THEN "404" ELSE "200_large"]
BookProbes == {PassFrom(k) : k \in 0..2} \cup {PassFrom(MaxProbes)}

BooksAddBook ==
    /\ op = "menu"
    /\ Len(store) < MaxPages
    /\ \E query \in {<<>>, QueryDune, QueryTsukuru} :
       \E d1 \in IF query # <<>> /\ IsMurakamiQuery(query)
                 THEN {Answer("transport"), Hits(Docs(<<"PL_TSUKURU">>))}
                 ELSE {Unused} :
       \E a1 \in IF query # <<>> /\ d1.shape # "hits"
                 THEN {Answer("transport"), Answer("null"), Hits(Docs(<<"OTHER_COVER">>))}
                 ELSE {Unused} :
       \E choice \in 0..(IF d1.shape = "hits" \/ a1.shape = "hits" THEN 1 ELSE 0) :
       \E work \in IF choice > 0
                   THEN {Answer("transport"), Answer("null"), Hits(PlainWork)}
                   ELSE {Unused} :
       \E editions \in IF work.shape \in {"hits", "null"}
                       THEN {PlainEditions, Answer("empty")} ELSE {Unused} :
       \E lookup \in IF work.shape = "hits"
                     THEN {FailedLookup(TitleDune), FoundLookup} ELSE {NoLookups} :
       \E p \in IF work.shape = "hits" THEN BookProbes ELSE {AllPass} :
       \E given \in IF work.shape = "hits" /\ p = AllPass
                    THEN [extra : {NoExtra, FullExtra}, status : {Reading, NoStatusTitle},
                          self : {Working, NoToken}, answer : NotionAnswers]
                    ELSE {[extra |-> NoExtra, status |-> Reading, self |-> Working,
                           answer |-> "ok"]} :
       \* lines 121-141
       \E direct \in {IF d1 # Unused
                      THEN direct_search_polish_book(BezbarwnyTsukuruFull, Murakami,
                                                     d1, Unused)
                      ELSE NoDirect} :
       \E searched \in {IF a1 # Unused
                        THEN search_book_openlibrary(query, "none", "title", a1, Unused,
                                                     Json)
                        ELSE NotCalled} :
       \* line 175
       \E got \in {IF choice > 0
                   THEN get_book_details_whole(
                            WorkId(SearchResults(direct, searched)[choice].id), work,
                            editions, Unused, <<NamedAuthor>>, p, Json, lookup)
                   ELSE NotCalled} :
          StoreCall("books.add_book",
                    [self |-> given.self, query |-> query, d1 |-> d1, a1 |-> a1,
                     choice |-> choice, work |-> work, editions |-> editions, p |-> p,
                     lookup |-> lookup, extra |-> given.extra, status |-> given.status,
                     answer |-> given.answer],
                    books_add_book(given.self, query, direct, searched, choice, got,
                                   given.extra, given.status, Physical,
                                   Notion(given.answer)))

VinylSearches ==
    {Answer("transport"), Answer("null"), Answer("empty"),
     Hits(<<[id |-> 1, t |-> VinylTemplates["WITH_ARTIST"]]>>)}
VinylSamples ==
    {[id |-> Some(249504), title |-> Some(<<"K","i","n","d"," ","o","f"," ","B","l","u","e">>), year |-> Some(1959),
      artists |-> Absent, genres |-> <<"Jazz">>,
      images |-> Some(<<ImageTemplates["PRIMARY"]>>)],
     [id |-> Some(249504), title |-> Absent, year |-> Absent,
      artists |-> Absent, genres |-> <<"Jazz">>, images |-> Absent]}

VinylsAddVinyl ==
    /\ op = "menu"
    /\ \E query \in {<<>>, QuerySextant}, a \in VinylSearches :
       \E choice \in 0..(IF a.shape = "hits" THEN 1 ELSE 0) :
       \E detail_a \in IF choice > 0
                       THEN {Answer("transport"), Answer("null"), Answer("empty")}
                            \cup {Hits(d) : d \in VinylSamples}
                       ELSE {Unused} :
       \E status \in {InCollection, NoStatusTitle}, self \in {Working, NoToken} :
          StoreCall("vinyls.add_vinyl",
                    [self |-> self, query |-> query, a1 |-> a, choice |-> choice,
                     detail_a |-> detail_a, status |-> status],
                    vinyls_add_vinyl(self, "all", query, a, Json, choice, detail_a,
                                     status, Notion("ok")))

NextAdd ==
    \/ Menu
    \/ MainAddGame
    \/ AnimeAddAnime
    \/ BooksAddBook
    \/ VinylsAddVinyl

AddSpec == Init /\ [][NextAdd]_vars

---------------------------------------------------------------------------
(* Properties of the add workflows                                         *)

IsAddWorkflow ==
    op \in {"main.add_game", "anime.add_anime", "books.add_book", "vinyls.add_vinyl"}

\* the places of the create calls among the requests of the workflow
CreateCalls == {i \in 1..Len(reqs) : reqs[i].type = "create"}

\* request j is a probe of url that the asset passed
PassedProbe(j, url) ==
    /\ reqs[j].type = "probe"
    /\ reqs[j].url = url
    /\ check_cover_exists(reqs[j].answer)

\* C8: in an add workflow, the cover of the page handed to the store's
\* create call is null, or a URL that an earlier request of the same
\* workflow probed and found to exist.
C8_CoverVerified ==
    IsAddWorkflow =>
        \A i \in CreateCalls :
            reqs[i].page.cover.has =>
                \E j \in 1..(i - 1) : PassedProbe(j, reqs[i].page.cover.val)

---------------------------------------------------------------------------
(* The library manager, app/utils/library_manager.py: the listing walk    *)

\* most pages of the database the walk lists
MaxShelf == 3
\* most list_games calls of one visit of the listing
MaxCalls == 5

\* what one call of list_all_games leaves on the screen: the table of the
\* page, the choices of the prompt, and the tables printed since the
\* listing was entered
Page(games, next_cursor, choices, tables) ==
    [tag |-> "page", val |-> games, next_cursor |-> next_cursor, choices |-> choices,
     tables |-> tables]

\* lines 100-106 with the choices of a prompt that always offers the next page
PaginationChoicesAlways(start_cursor, next_cursor) ==
    (IF start_cursor.has THEN <<"Previous Page">> ELSE <<>>)
    \o <<"Next Page", "Back to Library Menu">>

\* lines 100-106: the choices of the prompt
PaginationChoices(start_cursor, next_cursor) ==
    (IF start_cursor.has THEN <<"Previous Page">> ELSE <<>>)
    \o (IF next_cursor.has THEN <<"Next Page">> ELSE <<>>)
    \o <<"Back to Library Menu">>

\* the ids of the rows of a table
Rows(games) == [i \in 1..Len(games) |-> games[i].id]

\* list_all_games, lines 67-123, up to its prompt: listed is the outcome
\* of list_games (line 81), tables the tables printed before
list_all_games(start_cursor, listed, tables) ==
    IF listed.raised
    THEN [reqs |-> listed.reqs, ret |-> Page(<<>>, Absent, <<>>, tables),
          raised |-> FALSE, store |-> listed.store]
    ELSE IF listed.ret.val = <<>>
    THEN [reqs |-> listed.reqs, ret |-> Page(<<>>, Absent, <<>>, tables),
          raised |-> FALSE, store |-> listed.store]
    ELSE [reqs |-> listed.reqs,
          ret |-> Page(listed.ret.val, listed.ret.next_cursor,
                       PaginationChoices(start_cursor, listed.ret.next_cursor),
                       Append(tables, Rows(listed.ret.val))),
          raised |-> FALSE, store |-> listed.store]

---------------------------------------------------------------------------
(* The library specification: the database is filled from the menu, and   *)
(* the listing is walked one prompt at a time                              *)

Celeste == <<"C","e","l","e","s","t","e">>

\* a game added to the database
Shelve ==
    /\ op = "menu"
    /\ Len(store) < MaxShelf
    /\ \E name \in {Hades, Celeste} :
         AddGameCall(AddGameArgs(Working, name, Absent, Absent, Absent, Absent, Absent,
                                 "ok"))

\* one call of list_all_games that follows the calls of this visit
ListPage(choice, self, page_size, start_cursor, answer, sent, tables) ==
    \E listed \in {list_games(self, page_size, start_cursor, Absent, Notion(answer))} :
    \E r \in {list_all_games(start_cursor, listed, tables)} :
       /\ op' = "list_all_games"
       /\ args' = [choice |-> choice, self |-> self, page_size |-> page_size,
                   start_cursor |-> start_cursor, answer |-> answer]
       /\ reqs' = sent \o r.reqs
       /\ ret' = r.ret
       /\ raised' = r.raised
       /\ store' = r.store

\* library_menu, line 56: "List All"
ListAllGames ==
    /\ op = "menu"
    /\ \E self \in {Working, NoDatabase}, page_size \in {1, 2, 10},
          answer \in NotionAnswers :
         ListPage("List All", self, page_size, Absent, answer, <<>>, <<>>)

\* lines 113-114: "Next Page"
NextPage ==
    /\ op = "list_all_games"
    /\ InList("Next Page", ret.choices)
    /\ Len(reqs) < MaxCalls
    /\ \E answer \in NotionAnswers :
         ListPage("Next Page", args.self, args.page_size, ret.next_cursor, answer, reqs,
                  ret.tables)

\* lines 115-119: "Previous Page"
PreviousPage ==
    /\ op = "list_all_games"
    /\ InList("Previous Page", ret.choices)
    /\ Len(reqs) < MaxCalls
    /\ \E answer \in NotionAnswers :
         ListPage("Previous Page", args.self, args.page_size, Absent, answer, reqs,
                  ret.tables)

NextLibrary ==
    \/ Menu
    \/ Shelve
    \/ ListAllGames
    \/ NextPage
    \/ PreviousPage

LibrarySpec == Init /\ [][NextLibrary]_vars

\* the listing with a user who takes "Next Page" whenever the walk waits
\* at a prompt that offers it
WalkSpec == LibrarySpec /\ WF_vars(NextPage)

---------------------------------------------------------------------------
(* Properties of the listing walk                                          *)

IsListing == op = "list_all_games"

\* a walk that chains cursors: every call but the first carries the cursor
\* the call before it returned, and every call was answered
ForwardWalk ==
    /\ IsListing
    /\ reqs # <<>>
    /\ \A i \in 1..Len(reqs) : reqs[i].answer = "ok"
    /\ \A i \in 2..Len(reqs) : reqs[i].start_cursor.has

\* the rows of the tables, one table after the other
RECURSIVE Flat(_)
Flat(tables) == IF tables = <<>> THEN <<>> ELSE Head(tables) \o Flat(Tail(tables))

LastCall == reqs[Len(reqs)]

\* C13: a listing call without a cursor starts at the first page of the
\* database; "Previous Page" sends the listing again without a cursor;
\* "Next Page" is offered exactly when the last call returned a cursor, and
\* it sends that cursor; with a null cursor the walk cannot go on.
C13_ForwardOnly ==
    /\ []((IsListing /\ reqs # <<>>) =>
            /\ (~LastCall.start_cursor.has /\ ret.val # <<>>) => ret.val[1].id = 1
            /\ args.choice = "Previous Page" => ~LastCall.start_cursor.has
            /\ InList("Next Page", ret.choices) = ret.next_cursor.has
            /\ InList("Previous Page", ret.choices) =>
                  (args.start_cursor.has /\ ret.val # <<>>))
    /\ [][(IsListing' /\ args'.choice = "Next Page") =>
             /\ ret.next_cursor.has
             /\ reqs'[Len(reqs')].start_cursor = ret.next_cursor
             /\ (ret'.val # <<>> /\ reqs'[Len(reqs')].answer = "ok") =>
                   ret'.val[1].id = ret.val[Len(ret.val)].id + 1]_vars
    /\ [][(IsListing /\ ~ret.next_cursor.has /\ IsListing') =>
             args'.choice = "Previous Page"]_vars

\* back at the first page by "Previous Page", from the second page
C13_Witness ==
    /\ IsListing
    /\ args.choice = "Previous Page"
    /\ Len(reqs) = 3
    /\ reqs[2].start_cursor = Some(2)
    /\ ~reqs[3].start_cursor.has
    /\ ret.val[1].id = 1
    /\ ret.next_cursor.has


---------------------------------------------------------------------------
(* The multi-valued fields of add_anime and add_book, notion.py 649-660,   *)
(* 799-815 and 891-903                                                     *)

Fiction == <<"F","i","c","t","i","o","n">>
Drama == <<"D","r","a","m","a">>

\* texts of one, two and three values, with and without space around the
\* commas, and texts with an empty value
FieldTexts ==
    {Sunrise,
     Bones,
     Bones \o <<",">>,
     Sunrise \o <<",">> \o Bones,
     Sunrise \o <<",", " ">> \o Bones,
     <<" ">> \o Sunrise \o <<" ", ",", " ">> \o Bones \o <<" ">>,
     Sunrise \o <<",", ",">> \o Bones,
     Sunrise \o <<",", " ">>,
     Sunrise \o <<",">> \o Bones \o <<",">> \o Fiction,
     Fiction \o <<",", " ">> \o Drama,
     <<",">>}

\* lists of one and two values
FieldLists == {<<Sunrise>>, <<Bones>>, <<Sunrise, Bones>>, <<Fiction, Drama>>}

\* what a caller passes for a multi-valued field
FieldValues(type) ==
    IF type = "str" THEN {Str(t) : t \in FieldTexts} ELSE {Items(l) : l \in FieldLists}

\* add_anime called with the given studio
AddAnimeStudio ==
    /\ op = "menu"
    /\ Len(store) < MaxPages
    /\ \E type \in {"str", "list"}, answer \in NotionAnswers :
       \E studio \in FieldValues(type) :
         \E anime_details \in {CHOOSE d \in HydratedAnime : d.studios = <<>>} :
           \E c \in {[AnimeArgs(CowboyBebop, anime_details, Absent)
                        EXCEPT !.studio = Some(studio)]} :
              StoreCall("add_anime", [self |-> Working, call |-> c, answer |-> answer],
                        AddAnimeWith(Working, c, Notion(answer)))

\* add_book called with the given authors
AddBookAuthors ==
    /\ op = "menu"
    /\ Len(store) < MaxPages
    /\ \E type \in {"str", "list"}, answer \in NotionAnswers :
       \E authors \in FieldValues(type) :
         \E book_details \in HydratedBooks :
           \E c \in {[BookArgs(book_details, NoExtra, Absent, Absent)
                        EXCEPT !.authors = Some(authors)]} :
              AddBookCall(Working, c, answer)

\* add_book called with the given categories
AddBookCategories ==
    /\ op = "menu"
    /\ Len(store) < MaxPages
    /\ \E type \in {"str", "list"}, answer \in NotionAnswers :
       \E categories \in FieldValues(type) :
         \E book_details \in HydratedBooks :
           \E c \in {[BookArgs(book_details, NoExtra, Absent, Absent)
                        EXCEPT !.categories = Some(categories)]} :
              AddBookCall(Working, c, answer)

NextField ==
    \/ Menu
    \/ AddAnimeStudio
    \/ AddBookAuthors
    \/ AddBookCategories

FieldSpec == Init /\ [][NextField]_vars

\* the values of a multi-valued input: the elements of a list; of a text
\* the pieces between the commas, trimmed, the empty ones left out
FieldEntries(v) ==
    IF v.type = "list" THEN v.val
    ELSE SelectSeq([i \in 1..Len(SplitOn(v.val, ",")) |-> Strip(SplitOn(v.val, ",")[i])],
                   LAMBDA piece : piece # <<>>)

\* the multi-valued fields a create request was given: property name and input
GivenFields ==
    IF op = "add_anime" THEN {<<"Studio", args.call.studio>>}
    ELSE IF op = "add_book"
         THEN {<<"Authors", args.call.authors>>, <<"Categories", args.call.categories>>}
         ELSE {}

\* C19: in the create request of add_anime and add_book, the multi-select
\* of Studio, Authors and Categories has one entry per element of a list
\* input, and for a text input one entry per non-empty trimmed piece between
\* its commas.
C19_MultiValued ==
    \A f \in GivenFields :
        (reqs # <<>> /\ Truthy(f[2]) /\ FieldEntries(f[2].val) # <<>>) =>
            /\ f[1] \in DOMAIN reqs[1].page.properties
            /\ reqs[1].page.properties[f[1]] = Prop("multi_select", FieldEntries(f[2].val))

\* the authors half of C19 taken alone
C19_AuthorsSplit ==
    (op = "add_book" /\ reqs # <<>> /\ Truthy(args.call.authors)
     /\ FieldEntries(args.call.authors.val) # <<>>) =>
        reqs[1].page.properties["Authors"]
            = Prop("multi_select", FieldEntries(args.call.authors.val))


---------------------------------------------------------------------------
(* The database identifier, notion.py 20-77                                *)

\* a text returned by a call
Text(s) == [tag |-> "text", val |-> s]

\* s.startswith(p)
StartsWith(s, p) == Len(s) >= Len(p) /\ SubSeq(s, 1, Len(p)) = p

\* s.rstrip(c)
RECURSIVE RStrip(_, _)
RStrip(s, c) ==
    IF s # <<>> /\ s[Len(s)] = c THEN RStrip(SubSeq(s, 1, Len(s) - 1), c) ELSE s

\* s.replace(c, "")
Without(s, c) == SelectSeq(s, LAMBDA x : x # c)

\* s[:n]
Prefix(s, n) == SubSeq(s, 1, IF Len(s) < n THEN Len(s) ELSE n)

\* the part of s before the first c, all of s if there is none
Before(s, c) == IF InList(c, s) THEN SubSeq(s, 1, IndexOf(s, <<c>>) - 1) ELSE s

Https == <<"h","t","t","p","s",":","/","/">>

\* urlparse(url).path of an https URL: what follows the host, up to the
\* query or the fragment
UrlPath(url) ==
    LET rest == SubSeq(url, Len(Https) + 1, Len(url))
        tail == IF InList("/", rest)
                THEN SubSeq(rest, IndexOf(rest, <<"/">>), Len(rest)) ELSE <<>>
    IN Before(Before(tail, "?"), "#")

\* line 73: the length of a Notion id
IdLength == 32

\* NotionService._clean_database_id, lines 36-77; Absent is None
clean_database_id(database_id) ==
    IF database_id = <<>> THEN Absent
    ELSE LET last_part == LastSegment(RStrip(UrlPath(database_id), "/"))
             id_parts == SplitOn(last_part, "-")
             id == IF StartsWith(database_id, Https)
                   THEN IF InList("-", last_part) THEN id_parts[Len(id_parts)]
                        ELSE last_part
                   ELSE database_id
         IN Some(Prefix(Without(id, "-"), IdLength))

Hex32 == <<"0","1","2","3","4","5","6","7","8","9","a","b","c","d","e","f","0","1","2","3","4","5","6","7","8","9","a","b","c","d","e","f">>
Hex32b == <<"8","a","6","c","3","f","1","e","2","b","4","d","4","f","7","a","9","c","0","e","5","d","6","b","7","a","8","f","9","e","0","1">>
Uuid == <<"0","1","2","3","4","5","6","7","-","8","9","a","b","-","c","d","e","f","-","0","1","2","3","-","4","5","6","7","8","9","a","b","c","d","e","f">>
Hex40 == <<"0","1","2","3","4","5","6","7","8","9","a","b","c","d","e","f","0","1","2","3","4","5","6","7","8","9","a","b","c","d","e","f","0","1","2","3","4","5","6","7">>
Hex12 == <<"0","1","2","3","4","5","6","7","8","9","a","b">>
Hex31 == <<"0","1","2","3","4","5","6","7","8","9","a","b","c","d","e","f","0","1","2","3","4","5","6","7","8","9","a","b","c","d","e">>

\* ids as a user may paste them
RawIds == {Hex32, Hex32b, Uuid, Hex40, Hex12, Hex31}

NotionSo == <<"h","t","t","p","s",":","/","/","w","w","w",".","n","o","t","i","o","n",".","s","o","/">>
UrlBases == {NotionSo, NotionSo \o <<"w","o","r","k","s","p","a","c","e","/">>}
Slugs == {<<>>, <<"G","a","m","e","s","-">>, <<"M","y","-","G","a","m","e","s","-">>}
UrlEnds == {<<>>, <<"/">>, <<"?","v","=","7","7">>}

\* the URLs whose last path segment is the id, after a title slug or not
UrlsOf(id) == {b \o s \o id \o e : b \in UrlBases, s \in Slugs, e \in UrlEnds}

\* NotionService.__init__, lines 20-34: the database id the service keeps
NewService ==
    /\ op = "menu"
    /\ \E id \in RawIds :
         \E database_id \in {<<>>, id} \cup UrlsOf(id) :
           \E r \in {clean_database_id(database_id)} :
             Finish("_clean_database_id", [database_id |-> database_id],
                    [reqs |-> <<>>,
                     ret |-> IF r.has THEN Text(r.val) ELSE None,
                     raised |-> FALSE])

NextConfig ==
    \/ Menu
    \/ NewService

ConfigSpec == Init /\ [][NextConfig]_vars

\* C22: for a raw id, and for a URL whose last path segment is the id with
\* or without a title slug before it, _clean_database_id returns a text of
\* exactly 32 characters that agrees with the id without its hyphens (cut
\* when that is longer, filled up when it is shorter).
C22_CleanedId ==
    op = "_clean_database_id" =>
        \A id \in RawIds :
            args.database_id \in {id} \cup UrlsOf(id) =>
                /\ ret.tag = "text"
                /\ Len(ret.val) = IdLength
                /\ Prefix(ret.val, Len(Without(id, "-")))
                      = Prefix(Without(id, "-"), IdLength)

\* C22 for the ids of 32 characters or more written without hyphens
C22_PlainIds ==
    op = "_clean_database_id" =>
        \A id \in {Hex32, Hex32b, Hex40} :
            args.database_id \in {id} \cup UrlsOf(id) =>
                ret = Text(Prefix(id, IdLength))


\* C25: an add workflow of a game, an anime or a book shows the message
\* "Added ... to Notion database" only when the store's create call
\* succeeded (the add operation returned True).
C25_SuccessMessage ==
    (op \in {"main.add_game", "anime.add_anime", "books.add_book"}
     /\ ret.tag = "shown" /\ InList("added", ret.val)) =>
        \E i \in CreateCalls : reqs[i].answer = "ok"


\* C26: a vinyl add workflow in which the search returned hits, one was
\* selected, its details were hydrated and a status was chosen sends exactly
\* one create request to the store.
C26_VinylCreated ==
    (op = "vinyls.add_vinyl" /\ ret.tag = "shown" /\ InList("selected", ret.val)) =>
        Cardinality(CreateCalls) = 1

---------------------------------------------------------------------------
(* The edit workflow: app/utils/library_manager.py 212-521                 *)

\* str(n) of a number that is not negative
RECURSIVE Decimal(_)
Decimal(n) ==
    IF n < 10 THEN <<Digits[n + 1]>> ELSE Decimal(n \div 10) \o <<Digits[(n % 10) + 1]>>

\* lines 420-429: the choice text of a hit of the asset search
ChoiceText(game) ==
    LET Written(value) == IF value.type = "int" THEN Decimal(value.val) ELSE value.val
    IN IF game.name.has
       THEN game.name.val \o <<" ", "(">>
            \o (IF game.release_date.has THEN Written(game.release_date.val)
                ELSE <<"U","n","k","n","o","w","n">>)
            \o <<")">>
       ELSE game.text.val
            \o (IF game.release.has /\ Written(game.release.val) # <<>>
                THEN <<" ", "(">> \o Written(game.release.val) \o <<")">>
                ELSE <<>>)

\* lines 418-431: the hits offered as a choice, in their order
Offered(results) ==
    SelectSeq([i \in 1..Len(results) |-> GameHit(results[i])], IsGameChoice)

\* lines 457-481: the year read from the selected hit.  int() of the keys
\* 'release' and 'release_date' in this order; where it fails, the digits
\* between the parentheses of the selected text.
AssetYear(selected_game, selected, utc_offset) ==
    LET Direct(value) ==
            IF value.type = "int" THEN Some(value.val)
            ELSE IF IsDigits(value.val) THEN Some(IntOf(value.val))
            ELSE Absent
        FromText ==
            IF /\ InList("(", selected)
               /\ InList(")", selected)
               /\ IsDigits(SplitOn(SplitOn(selected, "(")[2], ")")[1])
            THEN Some(IntOf(SplitOn(SplitOn(selected, "(")[2], ")")[1]))
            ELSE Absent
        FromKey(entry) ==
            IF ~entry.has THEN Absent
            ELSE IF Direct(entry.val).has THEN Direct(entry.val)
            ELSE FromText
        release_timestamp ==
            IF FromKey(selected_game.release).has THEN FromKey(selected_game.release)
            ELSE FromKey(selected_game.release_date)
    IN IF release_timestamp.has THEN Some(YearOf(release_timestamp.val, utc_offset))
       ELSE Absent

\* lines 304-310: int(new_year_str), None for an empty or unreadable text
TypedYear(new_year_str) ==
    IF IsDigits(new_year_str) THEN Some(IntOf(new_year_str)) ELSE Absent

\* lines 278-279, 313, 353, 373: the stored values the edit compares with
Current(item, key, default) ==
    IF key \in DOMAIN item.properties THEN Some(item.properties[key]) ELSE default

\* lines 391-401: what has changed.  The year is compared before the asset
\* step; a listed record holds no format.
Changes(media_type, item, e) ==
    [name |-> e.new_name # <<>>
              /\ e.new_name # GetOr(Current(item, "name", Absent), <<"U","n","k","n","o","w","n">>),
     year |-> /\ TypedYear(e.new_year_str).has
              /\ TypedYear(e.new_year_str).val # 0
              /\ TypedYear(e.new_year_str) # Current(item, "release_year", Absent),
     status |-> e.new_status # GetOr(Current(item, "status", Absent), <<>>),
     platform |-> media_type # "Vinyl"
                  /\ e.new_platform # GetOr(Current(item, "platform", Absent), PC),
     format |-> media_type = "Vinyl"
                /\ e.new_format # GetOr(Current(item, "format", Absent), <<>>)]

\* lines 403-488: the asset step of a service with search_game and
\* get_game_icon.  searched, icon and poster are the outcomes of the three
\* calls, choice the place of the selected text (0 for "Cancel").  Lines
\* 439-440 read the hit at the place of the selected text in the list of
\* all hits.
AssetStep(e, searched, icon, poster, utc_offset) ==
    LET Keep(sent, update_assets) ==
            [raised |-> FALSE, reqs |-> sent, update_assets |-> update_assets,
             new_icon |-> Absent, new_poster |-> Absent,
             new_year |-> TypedYear(e.new_year_str)]
        Crash(sent) ==
            [raised |-> TRUE, reqs |-> sent, update_assets |-> TRUE,
             new_icon |-> Absent, new_poster |-> Absent, new_year |-> Absent]
        results == searched.ret.val
    IN IF ~e.has_assets \/ ~e.confirm THEN Keep(<<>>, FALSE)
       ELSE IF searched.raised THEN Crash(searched.reqs)
       ELSE IF results = <<>> THEN Keep(searched.reqs, FALSE)
       ELSE IF e.choice = 0 THEN Keep(searched.reqs, TRUE)
       ELSE IF ~IsGameChoice(GameHit(results[e.choice])) THEN Keep(searched.reqs, FALSE)
       ELSE IF icon.raised THEN Crash(searched.reqs \o icon.reqs)
       ELSE IF poster.raised THEN Crash(searched.reqs \o icon.reqs \o poster.reqs)
       ELSE [raised |-> FALSE,
             reqs |-> searched.reqs \o icon.reqs \o poster.reqs,
             update_assets |-> TRUE,
             new_icon |-> AssetUrl(icon),
             new_poster |-> AssetUrl(poster),
             new_year |-> AssetYear(GameHit(results[e.choice]),
                                    ChoiceText(Offered(results)[e.choice]),
                                    utc_offset)]

\* lines 490-513: the arguments of the update call, or none where nothing
\* has changed
UpdateArgs(media_type, item, e, assets) ==
    LET changed == Changes(media_type, item, e)
    IN [changed |-> changed,
        called |-> changed.name \/ changed.year \/ changed.status
                   \/ changed.platform \/ changed.format \/ assets.update_assets,
        page_id |-> item.id,
        name |-> IF changed.name THEN Some(e.new_name) ELSE Absent,
        release_year |-> IF changed.year THEN assets.new_year ELSE Absent,
        status |-> IF changed.status THEN Some(e.new_status) ELSE Absent,
        platform |-> IF changed.platform THEN Some(e.new_platform) ELSE Absent,
        format_type |-> IF changed.format THEN Some(e.new_format) ELSE Absent,
        icon_url |-> assets.new_icon,
        poster_url |-> assets.new_poster]

\* library_manager.edit_game with edit_specific_game, lines 212-521.
\* listed is the outcome of list_games(limit=50), assets the asset step and
\* updated the outcome of update_game with the arguments u.  update_game
\* has no format_type parameter: the call of the vinyl branch raises
\* TypeError before a request is made.  Every exception ends in the except
\* clause of edit_game.
edit_game(media_type, listed, selected, assets, u, updated, notion) ==
    LET Error(sent) == Ended(sent, <<"error">>, notion.pages)
    IN IF listed.raised THEN Error(listed.reqs)
       ELSE IF listed.ret.val = <<>> THEN Ended(listed.reqs, <<"no_items">>, notion.pages)
       ELSE IF selected = 0 THEN Ended(listed.reqs, <<>>, notion.pages)
       ELSE IF assets.raised THEN Error(listed.reqs \o assets.reqs)
       ELSE IF ~u.called
            THEN Ended(listed.reqs \o assets.reqs, <<"no_changes">>, notion.pages)
       ELSE IF media_type = "Vinyl" THEN Error(listed.reqs \o assets.reqs)
       ELSE IF updated.raised THEN Error(listed.reqs \o assets.reqs \o updated.reqs)
       ELSE Ended(listed.reqs \o assets.reqs \o updated.reqs,
                  IF updated.ret.val THEN <<"updated">> ELSE <<"failed">>,
                  updated.store)

\* line 244 and 258: the record kept under the name of the selected record
SelectedItem(items, selected) ==
    LET Key(i) == IF "name" \in DOMAIN items[i].properties
                  THEN items[i].properties.name
                  ELSE <<"U","n","k","n","o","w","n"," ">> \o Decimal(i - 1)
        last == CHOOSE i \in 1..Len(items) :
                   /\ Key(i) = Key(selected)
                   /\ \A j \in (i + 1)..Len(items) : Key(j) # Key(selected)
    IN items[last]

\* the media kinds of lines 281-290 with a status and a platform or format
\* of their menus
MediaTypes == {"Game", "Anime", "Book", "Vinyl"}
W_trakcie == <<"W"," ","t","r","a","k","c","i","e">>
PS5 == <<"P","S","5">>
LP == <<"L","P">>
StatusChoices(media_type) ==
    CASE media_type = "Vinyl" -> {InCollection, NoStatusTitle}
      [] media_type = "Anime" -> {Watching, NoStatusTitle}
      [] media_type = "Book" -> {Reading, NoStatusTitle}
      [] OTHER -> {W_trakcie, NoStatusTitle}

\* the years a user types: none, the year of the stored game, another one
YearTexts == {<<>>, <<"1","9","9","9">>, <<"2","0","0","1">>}

\* the answers of the asset search of an edit
EditSearches ==
    {Answer("null"), Answer("api_error"),
     Hits(<<[id |-> 1, kind |-> "NAMED"]>>),
     Hits(<<[id |-> 1, kind |-> "AUTOCOMPLETE"]>>),
     Hits(<<[id |-> 1, kind |-> "BARE"], [id |-> 2, kind |-> "UNDATED"]>>)}
EditIcons == {Hits(<<[mime |-> "image/png", url |-> HadesIcon]>>)}
EditPosters == {Answer("no_key"), Hits(<<[url |-> HadesPoster]>>)}

\* what the user enters at the prompts of edit_specific_game; has_assets
\* is the media service having search_game and get_game_icon, which the
\* service of the games has
EditInputs(media_type) ==
    [new_name : {Hades, Celeste},
     new_year_str : YearTexts,
     new_status : StatusChoices(media_type),
     new_platform : IF media_type = "Vinyl" THEN {<<>>} ELSE {PC, PS5},
     new_format : IF media_type = "Vinyl" THEN {LP} ELSE {<<>>},
     has_assets : {media_type = "Game"},
     confirm : IF media_type = "Game" THEN BOOLEAN ELSE {FALSE},
     choice : {0}]
NoEdit ==
    [new_name |-> <<>>, new_year_str |-> <<>>, new_status |-> <<>>, new_platform |-> <<>>,
     new_format |-> <<>>, has_assets |-> FALSE, confirm |-> FALSE, choice |-> 0]
NoAssets ==
    [raised |-> FALSE, reqs |-> <<>>, update_assets |-> FALSE, new_icon |-> Absent,
     new_poster |-> Absent, new_year |-> Absent]
NoUpdate ==
    [changed |-> [name |-> FALSE, year |-> FALSE, status |-> FALSE, platform |-> FALSE,
                  format |-> FALSE],
     called |-> FALSE, page_id |-> 0, name |-> Absent, release_year |-> Absent,
     status |-> Absent, platform |-> Absent, format_type |-> Absent, icon_url |-> Absent,
     poster_url |-> Absent]

\* a game enters the library
AddToLibrary ==
    /\ op = "menu"
    /\ Len(store) < MaxPages
    /\ \E release_timestamp \in {Absent, Some(946684799)},
          status \in {Absent, Some(Ukonczone)}, platform \in {Absent, Some(PS5)} :
          AddGameCall(AddGameArgs(Working, Hades, Absent, Absent, release_timestamp,
                                  status, platform, "ok"))

EditGame ==
    /\ op = "menu"
    /\ \E self \in {Working, NoToken},
          answer \in NotionAnswers, media_type \in MediaTypes :
       \E listed \in {list_games(self, 50, Absent, Absent, Notion(answer))} :
       \E selected \in 0..(IF listed.raised THEN 0 ELSE Len(listed.ret.val)) :
       \E typed \in IF selected = 0 THEN {NoEdit} ELSE EditInputs(media_type) :
       \E a \in IF typed.has_assets /\ typed.confirm THEN EditSearches ELSE {Unused} :
       \E steam \in {TRUE} :
       \E choice \in 0..(IF a = Unused \/ ~steam THEN 0 ELSE GameChoices(a)) :
       \E icon_a \in IF choice > 0 /\ IsGameChoice(GameHit(a.hits[choice]))
                     THEN EditIcons ELSE {Unused} :
       \E poster_a \in IF icon_a = Unused THEN {Unused} ELSE EditPosters :
       \E e \in {[typed EXCEPT !.choice = choice]} :
       \E assets \in {IF selected = 0 THEN NoAssets
                      ELSE AssetStep(e, search_game(steam, e.new_name, a, "json_error_is_request_exception"),
                                     get_game_icon(steam, IF choice > 0 THEN a.hits[choice].id ELSE 0,
                                                   icon_a, "json_error_is_request_exception"),
                                     get_game_poster(steam, IF choice > 0 THEN a.hits[choice].id ELSE 0,
                                                     poster_a, "json_error_is_request_exception"),
                                     self.utc_offset)} :
       \E u \in {IF selected = 0 THEN NoUpdate
                 ELSE UpdateArgs(media_type, SelectedItem(listed.ret.val, selected), e, assets)} :
       \E update_answer \in IF u.called /\ ~assets.raised /\ media_type # "Vinyl"
                            THEN NotionAnswers ELSE {"ok"} :
       \E updated \in {update_game(self, u.page_id, u.name, u.release_year, u.icon_url,
                                   u.poster_url, u.status, u.platform,
                                   Notion(update_answer))} :
          StoreCall("edit_game",
                    [self |-> self, answer |-> answer, media_type |-> media_type,
                     selected |-> selected, e |-> e, steam |-> steam, a1 |-> a,
                     icon_a |-> icon_a, poster_a |-> poster_a,
                     update_answer |-> update_answer, u |-> u,
                     update_assets |-> assets.update_assets],
                    edit_game(media_type, listed, selected, assets, u, updated,
                              Notion(answer)))

NextEdit ==
    \/ Menu
    \/ AddToLibrary
    \/ EditGame

EditSpec == Init /\ [][NextEdit]_vars

---------------------------------------------------------------------------
(* Properties of the edit workflow                                         *)

\* an edit that reached a record: one was selected from the listing
IsEdit == op = "edit_game" /\ args.selected > 0

\* the places of the update requests among the requests of the edit
UpdateCalls == {i \in 1..Len(reqs) : reqs[i].type = "update"}

\* the properties of an update request
Sent(i) == GetOr(reqs[i].data.properties, <<>>)

\* the request at place i carries the fields the edit found changed, with
\* the values entered
CarriesChanges(i) ==
    /\ args.u.changed.name =>
          "Name" \in DOMAIN Sent(i) /\ Sent(i).Name = Prop("title", <<args.e.new_name>>)
    /\ args.u.changed.year =>
          /\ "Wydano" \in DOMAIN Sent(i)
          /\ Sent(i).Wydano = Prop("number", TypedYear(args.e.new_year_str).val)
    /\ args.u.changed.status =>
          "Status" \in DOMAIN Sent(i) /\ Sent(i).Status = StatusProperty(args.e.new_status)
    /\ args.u.changed.platform =>
          /\ "Platforma" \in DOMAIN Sent(i)
          /\ Sent(i).Platforma = Prop("select", args.e.new_platform)
    /\ args.u.changed.format => "Format" \in DOMAIN Sent(i)

\* C27: in an edit of any media kind, vinyl included, where the name, the
\* year, the status, the platform or the format entered differs from the
\* stored value, exactly one update request is sent to the store and it
\* carries the changed fields.
C27_OneUpdate ==
    (IsEdit /\ \E f \in DOMAIN args.u.changed : args.u.changed[f])
        => /\ Cardinality(UpdateCalls) = 1
           /\ \A i \in UpdateCalls : CarriesChanges(i)

\* the same for the kinds other than vinyl, in an edit without the asset
\* step, as far as the request being sent and name, status and platform go
C27_OtherKinds ==
    (/\ IsEdit
     /\ args.media_type # "Vinyl"
     /\ ~args.e.confirm
     /\ \E f \in DOMAIN args.u.changed : args.u.changed[f])
        => /\ Cardinality(UpdateCalls) = 1
           /\ \A i \in UpdateCalls : CarriesChanges(i)

\* C28: where the year entered differs from the stored one, the update
\* request carries that year as the number of Wydano, with and without the
\* asset step in the same edit.
C28_EnteredYear ==
    (IsEdit /\ args.u.changed.year)
        => \A i \in UpdateCalls :
              /\ "Wydano" \in DOMAIN Sent(i)
              /\ Sent(i).Wydano = Prop("number", TypedYear(args.e.new_year_str).val)

\* without the asset step the entered year is the one sent
C28_WithoutAssets ==
    (IsEdit /\ args.u.changed.year /\ ~args.update_assets)
        => \A i \in UpdateCalls :
              /\ "Wydano" \in DOMAIN Sent(i)
              /\ Sent(i).Wydano = Prop("number", TypedYear(args.e.new_year_str).val)

\* the records list_games and get_game make of the stored page with this id
ListedRecord(page_id) ==
    list_games(Working, 1, Some(page_id), Absent, Notion("ok")).ret.val[1]
RetrievedRecord(page_id) == get_game(Working, page_id, Notion("ok")).ret.val

\* C29: the three read paths make the same record of the same stored page:
\* the same property keys with the same values, the same cover_url and the
\* same icon_url.
C29_SameRecord ==
    (op = "search_games" /\ ~raised)
        => \A i \in 1..Len(ret.val) :
              /\ ret.val[i] = ListedRecord(ret.val[i].id)
              /\ ret.val[i] = RetrievedRecord(ret.val[i].id)

\* list_games and search_games read the same properties and the same cover
C29_SearchAsListed ==
    (op = "search_games" /\ ~raised)
        => \A i \in 1..Len(ret.val) :
              /\ ret.val[i].properties = ListedRecord(ret.val[i].id).properties
              /\ ret.val[i].cover_url = ListedRecord(ret.val[i].id).cover_url

\* list_games and get_game read the same cover and the same icon
C29_RetrievedAsListed ==
    (op = "get_game" /\ ret.tag = "rec")
        => /\ ret.val.cover_url = ListedRecord(ret.val.id).cover_url
           /\ ret.val.icon_url = ListedRecord(ret.val.id).icon_url

\* the covers the selected edition carries: those of its fetched details,
\* else the one of its entry in the editions list
SelectedCovers(fetch) ==
    LET e == ListedEditions[fetch.target]
    IN (IF fetch.answer.shape = "hits" /\ fetch.answer.hits.covers # <<>>
        THEN {Some(fetch.answer.hits.covers[1])} ELSE {})
       \cup (IF EditionTemplates[e.kind].hasCovers THEN {Some(EditionCover(e))} ELSE {})

\* the covers the work record of the call lists
WorkCovers ==
    IF IsBookHydration /\ reqs # <<>> /\ reqs[1].type = "work"
       /\ reqs[1].answer.shape = "hits"
    THEN GetOr(reqs[1].answer.hits.covers, <<>>) ELSE <<>>

\* C30: when get_book_details selected a Polish edition that carries a
\* cover, the cover_id of the record is that edition's cover, also when the
\* work record lists covers of its own.
C30_EditionCoverKept ==
    \A i \in 1..Len(EditionFetches) :
        (ret.tag = "record" /\ SelectedCovers(EditionFetches[i]) # {})
            => ret.val.cover_id \in SelectedCovers(EditionFetches[i])

\* the same for a work record that lists no covers
C30_WithoutWorkCovers ==
    \A i \in 1..Len(EditionFetches) :
        (ret.tag = "record" /\ SelectedCovers(EditionFetches[i]) # {} /\ WorkCovers = <<>>)
            => ret.val.cover_id \in SelectedCovers(EditionFetches[i])

=============================================================================
